---- MODULE Spec2Model ----
(***************************************************************************)
(* A model of the auto-scheduler of src/src/AutoSchedule.cpp: the driver   *)
(* generate_schedules, the pipeline graph and the grouping engine of       *)
(* struct Partitioner, with the cost model that directs it.                *)
(*                                                                         *)
(* Function names are the integers 1..n of the environment, ordered as the *)
(* std::map over names orders them; 0 names a pipeline input (an image     *)
(* that is not in the environment).  A stage (FStage) is <<func, stage>>.  *)
(***************************************************************************)
EXTENDS Integers, Sequences, FiniteSets, TLC

(***************************************************************************)
(* Bounds of the model.                                                    *)
(***************************************************************************)
IntBits == 24        \* modelled width of int64_t
MaxArith == 8        \* per-point arithmetic cost of a definition: 1 or MaxArith

\* AutoScheduleUtils.h: the sentinel for a value that could not be inferred,
\* the least value of the integer type.
unknown == -(2^(IntBits - 1))

\* Two's-complement wrap-around of a signed addition.
Wrap(v) == ((v + 2^(IntBits - 1)) % (2^IntBits)) - 2^(IntBits - 1)

Min(a, b) == IF a < b THEN a ELSE b
Max(a, b) == IF a < b THEN b ELSE a

\* std::ceil((float)a / b) for a >= 0, b > 0.
CeilDiv(a, b) == (a + b - 1) \div b

RECURSIVE SumSeq(_)
SumSeq(s) == IF s = <<>> THEN 0 ELSE Head(s) + SumSeq(Tail(s))

RECURSIVE ProdSeq(_)
ProdSeq(s) == IF s = <<>> THEN 1 ELSE Head(s) * ProdSeq(Tail(s))

Range(s) == {s[i] : i \in DOMAIN s}

(***************************************************************************)
(* Intervals and boxes.                                                    *)
(***************************************************************************)
\* Interval(min, max) with integer constant ends.
Interval(lo, hi) == [bounded |-> TRUE, min |-> lo, max |-> hi]
\* Interval(): everything; neither end is an integer constant.
Everything == [bounded |-> FALSE, min |-> 0, max |-> 0]

\* get_extent: the number of points of an interval, unknown unless both ends
\* are integer constants.
get_extent(i) == IF i.bounded THEN i.max - i.min + 1 ELSE unknown

\* box_size: the number of points of a box, unknown if any extent is.
box_size(b) ==
    IF \E d \in DOMAIN b : get_extent(b[d]) = unknown THEN unknown
    ELSE ProdSeq([d \in DOMAIN b |-> Max(get_extent(b[d]), 0)])

\* merge_boxes: coordinate-wise widening of a by b.
merge_interval(a, b) ==
    IF a.bounded /\ b.bounded
    THEN Interval(Min(a.min, b.min), Max(a.max, b.max))
    ELSE Everything
merge_boxes(a, b) == [d \in DOMAIN a |-> merge_interval(a[d], b[d])]

\* merge_regions: merge the region map 'partial' into 'result'.
merge_regions(result, partial) ==
    [f \in (DOMAIN result) \cup (DOMAIN partial) |->
        IF f \notin DOMAIN result THEN partial[f]
        ELSE IF f \notin DOMAIN partial THEN result[f]
        ELSE merge_boxes(result[f], partial[f])]

(***************************************************************************)
(* Stages.                                                                 *)
(***************************************************************************)
\* FStage::operator<
StageLess(a, b) == a[1] < b[1] \/ (a[1] = b[1] /\ a[2] < b[2])

\* The elements of a set of stages in the iteration order of std::set / std::map.
RECURSIVE SortedStages(_)
SortedStages(S) ==
    IF S = {} THEN <<>>
    ELSE LET m == CHOOSE a \in S : \A b \in S \ {a} : StageLess(a, b)
         IN <<m>> \o SortedStages(S \ {m})

RECURSIVE SortedInts(_)
SortedInts(S) ==
    IF S = {} THEN <<>>
    ELSE LET m == CHOOSE a \in S : \A b \in S : a <= b
         IN <<m>> \o SortedInts(S \ {m})

\* The elements of a set in some fixed order.
RECURSIVE SetToSeq(_)
SetToSeq(S) ==
    IF S = {} THEN <<>>
    ELSE LET x == CHOOSE y \in S : TRUE IN <<x>> \o SetToSeq(S \ {x})

(***************************************************************************)
(* The input of a run: the call environment of the outputs, and the        *)
(* machine parameters.                                                     *)
(***************************************************************************)
\* A call, in the definition of a stage, of function f (0: an input image)
\* at the points v+lo .. v+hi along every dimension v; 'ub' marks an access
\* whose index is data dependent, so that its bounds cannot be inferred.
Call(f, lo, hi) == [f |-> f, lo |-> lo, hi |-> hi, ub |-> FALSE, rv |-> FALSE]
CallUB(f) == [f |-> f, lo |-> 0, hi |-> 0, ub |-> TRUE, rv |-> FALSE]
\* A call, in an update definition, of f at the point v+r along every
\* dimension v, r the reduction variable, of extent e, of the definition.
CallRV(f, e) == [f |-> f, lo |-> 0, hi |-> e - 1, ub |-> FALSE, rv |-> TRUE]

\* A function with a pure definition only, over the pure arguments 'args'.
PureFunc(args, calls) ==
    [args |-> args, updates |-> 0, calls |-> <<calls>>, rvars |-> <<>>,
     extern |-> FALSE]
\* A function with one update definition over the reduction variables 'rv'.
UpdFunc(args, calls0, calls1, rv) ==
    [args |-> args, updates |-> 1, calls |-> <<calls0, calls1>>,
     rvars |-> <<rv>>, extern |-> FALSE]
\* A function with an extern definition; 'calls' are its arguments that are
\* functions or images.
ExternFunc(args, calls) ==
    [args |-> args, updates |-> 0, calls |-> <<calls>>, rvars |-> <<>>,
     extern |-> TRUE]
RVar(v, e, p) == [var |-> v, extent |-> e, par |-> p]

X == <<"x">>
XY == <<"x", "y">>

\* MachineParams: the parallelism, the size of the last level cache and the
\* balance (the cost of a load from memory relative to an arithmetic
\* operation) of the target machine.
MachineParams(parallelism, llc, balance) ==
    [parallelism |-> parallelism, last_level_cache_size |-> llc, balance |-> balance]

\* The pipelines the model runs the scheduler on.
Pipelines ==
    { \* a chain f -> g (3-point stencil) -> h
      [funcs |-> << PureFunc(X, {Call(0, 0, 0)}),
                    PureFunc(X, {Call(1, 0, 2)}),
                    PureFunc(X, {Call(2, 0, 0)}) >>,
       outputs |-> <<3>>, extents |-> {8, 1024}],
      \* a chain f -> g -> h (3-point stencil)
      [funcs |-> << PureFunc(X, {Call(0, 0, 0)}),
                    PureFunc(X, {Call(1, 0, 0)}),
                    PureFunc(X, {Call(2, 0, 2)}) >>,
       outputs |-> <<3>>, extents |-> {1024, 4096}],
      \* two like producers of one consumer
      [funcs |-> << PureFunc(X, {Call(0, 0, 0)}),
                    PureFunc(X, {Call(0, 0, 0)}),
                    PureFunc(X, {Call(1, 0, 0), Call(2, 0, 0)}) >>,
       outputs |-> <<3>>, extents |-> {8, 1024}],
      \* a producer with two consumer functions
      [funcs |-> << PureFunc(X, {Call(0, 0, 0)}),
                    PureFunc(X, {Call(1, 0, 0)}),
                    PureFunc(X, {Call(1, 0, 1), Call(2, 0, 0)}) >>,
       outputs |-> <<3>>, extents |-> {8, 1024}],
      \* a reduction consumed by the output
      [funcs |-> << UpdFunc(X, {Call(0, 0, 0)}, {Call(1, 0, 0), Call(0, 0, 0)},
                            <<RVar("r", 4, FALSE)>>),
                    PureFunc(X, {Call(1, 0, 0)}) >>,
       outputs |-> <<2>>, extents |-> {8, 1024}],
      \* a reduction over a window of the input, consumed by the output
      [funcs |-> << UpdFunc(XY, {Call(0, 0, 0)}, {Call(1, 0, 0), CallRV(0, 4)},
                            <<RVar("r", 4, FALSE)>>),
                    PureFunc(XY, {Call(1, 0, 0)}) >>,
       outputs |-> <<2>>, extents |-> {8}],
      \* a producer consumed by both stages of a function with an update
      [funcs |-> << PureFunc(X, {Call(0, 0, 0)}),
                    UpdFunc(X, {Call(1, 0, 0)}, {Call(2, 0, 0), Call(1, 0, 1)},
                            <<RVar("r", 2, TRUE)>>),
                    PureFunc(X, {Call(2, 0, 0)}) >>,
       outputs |-> <<3>>, extents |-> {8, 1024}],
      \* a producer consumed by both stages of an output with an update
      [funcs |-> << PureFunc(X, {Call(0, 0, 0)}),
                    UpdFunc(X, {Call(1, 0, 0)}, {Call(2, 0, 0), Call(1, 0, 1)},
                            <<RVar("r", 2, TRUE)>>) >>,
       outputs |-> <<2>>, extents |-> {1024}],
      \* names in the reverse of the realization order; the pure definition
      \* of a function with an update has a producer of its own
      [funcs |-> << PureFunc(X, {Call(3, 0, 0)}),
                    PureFunc(X, {Call(0, 0, 0)}),
                    UpdFunc(X, {Call(2, 0, 0)}, {Call(3, 0, 0)}, <<>>) >>,
       outputs |-> <<1>>, extents |-> {8, 1024}],
      \* two outputs that share a producer
      [funcs |-> << PureFunc(X, {Call(3, 0, 0)}),
                    PureFunc(X, {Call(3, 0, 1)}),
                    PureFunc(X, {Call(0, 0, 0)}) >>,
       outputs |-> <<1, 2>>, extents |-> {1024}],
      \* two outputs that share a producer with an update definition
      [funcs |-> << PureFunc(X, {Call(3, 0, 2)}),
                    PureFunc(X, {Call(3, 0, 2)}),
                    UpdFunc(X, {Call(0, 0, 0)}, {Call(3, 0, 0)}, <<>>) >>,
       outputs |-> <<1, 2>>, extents |-> {1024}],
      \* a look-up table read at a data-dependent index, beside a producer
      \* that reads nothing
      [funcs |-> << PureFunc(X, {Call(0, 0, 0)}),
                    PureFunc(X, {CallUB(1)}),
                    PureFunc(X, {}),
                    PureFunc(X, {Call(2, 0, 0), Call(3, 0, 0)}) >>,
       outputs |-> <<4>>, extents |-> {1024}],
      \* an extern function without inputs, consumed by a stencil
      [funcs |-> << ExternFunc(XY, {}),
                    PureFunc(XY, {Call(1, 0, 1)}) >>,
       outputs |-> <<2>>, extents |-> {128}],
      \* an extern function between a producer and the output
      [funcs |-> << PureFunc(X, {Call(0, 0, 0)}),
                    ExternFunc(X, {Call(1, 0, 0)}),
                    PureFunc(X, {Call(2, 0, 2)}) >>,
       outputs |-> <<3>>, extents |-> {1024}],
      \* an output consumed by another output, its update definition reading
      \* the function itself at a data-dependent index
      [funcs |-> << PureFunc(X, {Call(2, 0, 2)}),
                    UpdFunc(X, {Call(0, 0, 0)}, {CallUB(2)}, <<>>) >>,
       outputs |-> <<1, 2>>, extents |-> {1024}],
      \* two chains, each a producer and an output that is a 3-point stencil
      [funcs |-> << PureFunc(X, {Call(0, 0, 0)}),
                    PureFunc(X, {Call(0, 0, 0)}),
                    PureFunc(X, {Call(1, 0, 2)}),
                    PureFunc(X, {Call(2, 0, 2)}) >>,
       outputs |-> <<3, 4>>, extents |-> {4096}],
      \* a function with an update read pointwise by the output, wide and low,
      \* for a machine with a cache the rows of which a tile fits
      [funcs |-> << UpdFunc(XY, {Call(0, 0, 0)}, {Call(1, 0, 0)}, <<>>),
                    PureFunc(XY, {Call(1, 0, 0)}) >>,
       outputs |-> <<2>>, extents |-> {100}, height |-> 8,
       machines |-> {MachineParams(16, 4096, 40)}],
      \* a function with an update consumed by both stages of an output
      [funcs |-> << UpdFunc(X, {Call(0, 0, 0)}, {Call(1, 0, 0), Call(0, 0, 0)}, <<>>),
                    UpdFunc(X, {Call(1, 0, 2)}, {Call(2, 0, 0), Call(1, 0, 2)}, <<>>) >>,
       outputs |-> <<2>>, extents |-> {1024, 4096}],
      \* two-dimensional functions
      [funcs |-> << PureFunc(XY, {Call(0, 0, 0)}),
                    PureFunc(XY, {Call(1, 0, 1)}) >>,
       outputs |-> <<2>>, extents |-> {128}] }

\* The dimensions of the stages of a function in the order of its definition:
\* the reduction variables of the stage, then the pure arguments.
DeclaredDims(func) ==
    [s \in 1..(func.updates + 1) |->
        (IF s = 1 THEN <<>> ELSE [i \in DOMAIN func.rvars[s - 1] |-> func.rvars[s - 1][i].var])
        \o func.args]
Reverse(seq) == [i \in DOMAIN seq |-> seq[Len(seq) + 1 - i]]
\* What a user may have scheduled on a function before the scheduler is
\* called: nothing, a split, a bound, a loop that is not serial, a
\* specialization, or the loops of every stage in the reverse order.
UserSchedule(dims, split, bound, for_type, spec) ==
    [dims |-> dims, splits |-> split, bounds |-> bound, non_serial |-> for_type,
     specializations |-> spec]
UserSchedules(func) ==
    { UserSchedule(DeclaredDims(func), FALSE, FALSE, FALSE, FALSE),
      UserSchedule(DeclaredDims(func), TRUE, FALSE, FALSE, FALSE),
      UserSchedule(DeclaredDims(func), FALSE, TRUE, FALSE, FALSE),
      UserSchedule(DeclaredDims(func), FALSE, FALSE, TRUE, FALSE),
      UserSchedule(DeclaredDims(func), FALSE, FALSE, FALSE, TRUE),
      UserSchedule([s \in DOMAIN DeclaredDims(func) |-> Reverse(DeclaredDims(func)[s])],
                   FALSE, FALSE, FALSE, FALSE) }

\* A Bound {var, min, extent} of schedule().estimates(); 'int' tells whether
\* min and extent are integer constants.
Bound(v, e, isint) == [var |-> v, min |-> 0, extent |-> e, int |-> isint]

\* The estimates a user may have given on an output with arguments 'args'
\* of extent e along the first and h along the others: all of them, all but
\* the last, one that is not a constant, one given twice in place of another,
\* and one given twice besides the rest.
EstimateCases(args, e, h) ==
    LET full == [i \in 1..Len(args) |-> Bound(args[i], IF i = 1 THEN e ELSE h, TRUE)]
    IN { full,
         SubSeq(full, 1, Len(args) - 1),
         [full EXCEPT ![1] = Bound(args[1], e, FALSE)],
         [full EXCEPT ![Len(args)] = Bound(args[1], e, TRUE)],
         full \o <<Bound(args[1], e, TRUE)>> }

\* The machines a pipeline is scheduled for, and the extent its outputs are
\* estimated to have along the dimensions after the first, when the pipeline
\* names them; otherwise a machine of 16 cores with a small cache, and the
\* same extent along every dimension.
Machines(p) ==
    IF "machines" \in DOMAIN p THEN p.machines ELSE {MachineParams(16, 256, 4)}
Height(p, e) == IF "height" \in DOMAIN p THEN p.height ELSE e

(***************************************************************************)
(* The state of a run of generate_schedules.                               *)
(***************************************************************************)
VARIABLES
    pc,               \* the point generate_schedules has reached
    env,              \* map<string, Function>: name -> function record
    outputs,          \* the output functions, in the order given
    schedule,         \* per function: its compute and store level
    sched,            \* the transcript: the directives applied so far
    pipeline_bounds,  \* Partitioner::pipeline_bounds
    groups,           \* Partitioner::groups: output stage -> Group
    children,         \* Partitioner::children: stage -> set of stages
    group_costs,      \* Partitioner::group_costs: output stage -> GroupAnalysis
    grouping_cache,   \* Partitioner::grouping_cache: choice -> GroupConfig
    last,             \* what the last iteration of Partitioner::group did
    arch_params       \* Partitioner::arch_params: the MachineParams of the target

vars == <<pc, env, outputs, schedule, sched, pipeline_bounds, groups, children,
          group_costs, grouping_cache, last, arch_params>>

Funcs == DOMAIN env
num_stages(f) == env[f].updates + 1
StagesOf(f) == {<<f, s>> : s \in 0..env[f].updates}
AllStages == UNION {StagesOf(f) : f \in Funcs}
Names(S) == {st[1] : st \in S}

\* def.schedule().dims() of stage s of f without '__outermost': as declared,
\* the pure arguments for the pure definition, and for an update definition
\* the reduction variables and then the pure arguments.
Dims(f, s) ==
    [i \in DOMAIN env[f].dims[s + 1] |->
        LET v == env[f].dims[s + 1][i]
        IN IF v \in Range(env[f].args) THEN [var |-> v, rvar |-> FALSE, par |-> TRUE]
           ELSE [var |-> v, rvar |-> TRUE,
                 par |-> \A r \in Range(env[f].rvars[s]) : r.var = v => r.par]]
DimVars(f, s) == {Dims(f, s)[d].var : d \in DOMAIN Dims(f, s)}

\* can_parallelize_rvar(var, f, def): a pure variable can always be run in
\* parallel, a reduction variable only if the update allows it.
can_parallelize_rvar(var, f, s) ==
    \A d \in DOMAIN Dims(f, s) : Dims(f, s)[d].var = var => Dims(f, s)[d].par

\* get_parents(f, s): the names called in the definition of stage s of f.
get_parents(f, s) == {c.f : c \in env[f].calls[s + 1]}

\* get_stage_bounds(f, s, pure_bounds): the bounds of the loop dimensions of
\* stage s, from the bounds of the pure dimensions and the reduction domain.
get_stage_bounds(f, s, pure_bounds) ==
    [v \in DimVars(f, s) |->
        IF v \in DOMAIN pure_bounds THEN pure_bounds[v]
        ELSE IF s > 0 /\ \E r \in Range(env[f].rvars[s]) : r.var = v
        THEN Interval(0, (CHOOSE r \in Range(env[f].rvars[s]) : r.var = v).extent - 1)
        ELSE Everything]

(***************************************************************************)
(* DependenceAnalysis.                                                     *)
(***************************************************************************)
\* boxes_required(expr, scope): the box of every function called by the
\* definition of stage s of f, with the loop variables in 'scope'.
boxes_required(f, s, scope) ==
    LET calls == env[f].calls[s + 1]
        args == env[f].args
        rank(g) == IF g \in Funcs THEN Len(env[g].args) ELSE Len(args)
        to(g) == {c \in calls : c.f = g}
        lo(g) == CHOOSE l \in {c.lo : c \in to(g)} : \A c \in to(g) : l <= c.lo
        hi(g) == CHOOSE h \in {c.hi : c \in to(g)} : \A c \in to(g) : h >= c.hi
    IN [g \in {c.f : c \in calls} |->
          [d \in 1..rank(g) |->
             IF (\E c \in to(g) : c.ub) \/ d > Len(args) \/ ~scope[args[d]].bounded
             THEN Everything
             ELSE Interval(scope[args[d]].min + lo(g), scope[args[d]].max + hi(g))]]

\* queue_func_regions: every stage of prod_func, with the bounds of its loops
\* that the region gives.
queue_func_regions(prod_func, region) ==
    LET prod_pure_bounds ==
            [v \in Range(env[prod_func].args) |->
                region[CHOOSE i \in DOMAIN env[prod_func].args :
                           env[prod_func].args[i] = v]]
    IN [i \in 1..num_stages(prod_func) |->
          [stage |-> <<prod_func, i - 1>>,
           bounds |-> get_stage_bounds(prod_func, i - 1, prod_pure_bounds)]]

\* A faulty merge_and_queue_regions: a region with an end that is no
\* integer constant is left out of the map.
merged_regions_bounded_only(regions, curr_regions, only_regions_computed, curr_func_name) ==
    merge_regions(regions,
        [g \in {h \in DOMAIN curr_regions :
                   /\ ~only_regions_computed \/ h # curr_func_name
                   /\ \A d \in DOMAIN curr_regions[h] : curr_regions[h][d].bounded} |->
            curr_regions[g]])
\* A faulty merge_and_queue_regions: the region of the current function is
\* merged also when only the regions computed are asked for.
merged_regions_with_parent(regions, curr_regions, only_regions_computed, curr_func_name) ==
    merge_regions(regions, curr_regions)
\* merge_and_queue_regions, the regions it leaves ...
merged_regions(regions, curr_regions, only_regions_computed, curr_func_name) ==
    merge_regions(regions,
        [g \in {h \in DOMAIN curr_regions :
                   ~only_regions_computed \/ h # curr_func_name} |-> curr_regions[g]])

\* ... and what it appends to the queue.
RECURSIVE queued_regions(_, _, _, _)
queued_regions(names, curr_regions, prods, curr_func_name) ==
    IF names = <<>> THEN <<>>
    ELSE LET g == Head(names)
         IN (IF g \in prods /\ g \in Funcs /\ g # curr_func_name
             THEN queue_func_regions(g, curr_regions[g]) ELSE <<>>)
            \o queued_regions(Tail(names), curr_regions, prods, curr_func_name)

\* The regions of one stage: those of the calls of its definition, and the
\* region of the left-hand side merged into the function's own.  Of a
\* function with an extern definition, which has no values: the whole of
\* every function and image among its arguments.
stage_curr_regions(f, s, curr_bounds) ==
    LET called == boxes_required(f, s, curr_bounds)
        left_reg == [d \in 1..Len(env[f].args) |-> curr_bounds[env[f].args[d]]]
    IN IF env[f].extern
       THEN [g \in DOMAIN called |-> [d \in DOMAIN called[g] |-> Everything]]
       ELSE IF f \in DOMAIN called
       THEN [called EXCEPT ![f] = merge_boxes(@, left_reg)]
       ELSE [g \in (DOMAIN called) \cup {f} |->
                IF g = f THEN left_reg ELSE called[g]]

\* The traversal of the queue of regions_required.
RECURSIVE traverse_regions(_, _, _, _)
traverse_regions(f_queue, regions, prods, only_regions_computed) ==
    IF f_queue = <<>> THEN regions
    ELSE LET st == Head(f_queue).stage
             curr == stage_curr_regions(st[1], st[2], Head(f_queue).bounds)
         IN traverse_regions(
                Tail(f_queue)
                    \o queued_regions(SortedInts(DOMAIN curr), curr, prods, st[1]),
                merged_regions(regions, curr, only_regions_computed, st[1]),
                prods, only_regions_computed)

\* The last part of regions_required: an end that is not an integer constant
\* is replaced by the function's own estimate on that dimension, if any.
concrete_regions(regions) ==
    [g \in DOMAIN regions |->
        [i \in DOMAIN regions[g] |->
            LET est == IF g \in Funcs THEN env[g].estimates ELSE <<>>
                hits == {k \in DOMAIN est :
                            i <= Len(env[g].args) /\ est[k].var = env[g].args[i]
                            /\ est[k].int}
            IN IF regions[g][i].bounded \/ hits = {} THEN regions[g][i]
               ELSE LET k == CHOOSE k \in hits : \A j \in hits : j <= k
                    IN Interval(est[k].min, est[k].min + est[k].extent - 1)]]

\* DependenceAnalysis::regions_required(f, stage_num, bounds, prods,
\* only_regions_computed).
regions_required(f, stage_num, bounds, prods, only_regions_computed) ==
    concrete_regions(
        traverse_regions(<<[stage |-> <<f, stage_num>>, bounds |-> bounds]>>,
                         <<>>, prods, only_regions_computed))

\* DependenceAnalysis::regions_required(f, pure_bounds, prods,
\* only_regions_computed): the regions of every stage of f, merged.
RECURSIVE func_regions_loop(_, _, _, _, _, _)
func_regions_loop(f, s, pure_bounds, prods, only_regions_computed, regions) ==
    IF s >= num_stages(f) THEN regions
    ELSE func_regions_loop(f, s + 1, pure_bounds, prods, only_regions_computed,
            merge_regions(regions,
                regions_required(f, s, get_stage_bounds(f, s, pure_bounds),
                                 prods, only_regions_computed)))
func_regions_required(f, pure_bounds, prods, only_regions_computed) ==
    func_regions_loop(f, 0, pure_bounds, prods, only_regions_computed, <<>>)

\* get_pipeline_bounds: the regions of every function required for the
\* outputs, from the estimates on the outputs (of two estimates on one
\* argument the most recent is used; an argument without one is unbounded).
output_pure_bounds(out) ==
    [v \in Range(env[out].args) |->
        LET hits == {k \in DOMAIN env[out].estimates : env[out].estimates[k].var = v}
        IN IF hits = {} THEN Everything
           ELSE LET est == env[out].estimates[CHOOSE k \in hits : \A j \in hits : j <= k]
                IN Interval(est.min, est.min + est.extent - 1)]
output_box(out) ==
    LET found == SelectSeq(env[out].args,
                     LAMBDA v : \E k \in DOMAIN env[out].estimates :
                                   env[out].estimates[k].var = v)
    IN [i \in 1..Len(found) |-> output_pure_bounds(out)[found[i]]]
RECURSIVE pipeline_bounds_loop(_, _)
pipeline_bounds_loop(outs, bounds) ==
    IF outs = <<>> THEN bounds
    ELSE LET out == Head(outs)
             regions == func_regions_required(out, output_pure_bounds(out), Funcs, FALSE)
             with_out == IF out \in DOMAIN regions THEN regions
                         ELSE [g \in (DOMAIN regions) \cup {out} |->
                                  IF g = out THEN output_box(out) ELSE regions[g]]
         IN pipeline_bounds_loop(Tail(outs), merge_regions(bounds, with_out))
get_pipeline_bounds == pipeline_bounds_loop(outputs, <<>>)

(***************************************************************************)
(* RegionCosts: the cost of computing a region of a function.              *)
(***************************************************************************)
\* The number of points of a callee a call reads at one point of the caller.
CallPoints(f, c) ==
    IF c.rv THEN 1 ELSE ProdSeq([d \in 1..Len(env[f].args) |-> c.hi - c.lo + 1])

\* The arithmetic operations of one point of stage s of f, the definitions
\* of the inlined functions it calls substituted into it.
RECURSIVE ExprArith(_, _, _)
ExprArith(f, s, inlined) ==
    env[f].arith
    + SumSeq([i \in 1..Cardinality(env[f].calls[s + 1]) |->
        LET c == SetToSeq(env[f].calls[s + 1])[i]
        IN IF c.f \in inlined /\ c.f \in Funcs /\ c.f # f
           THEN CallPoints(f, c) * ExprArith(c.f, 0, inlined)
           ELSE 0])

\* The loads from 'g' of the calls of one point of stage s of f, after
\* inlining ...
RECURSIVE CallLoads(_, _, _, _)
CallLoads(f, s, inlined, g) ==
    SumSeq([i \in 1..Cardinality(env[f].calls[s + 1]) |->
        LET c == SetToSeq(env[f].calls[s + 1])[i]
        IN IF c.f \in inlined /\ c.f \in Funcs /\ c.f # f
           THEN CallPoints(f, c) * CallLoads(c.f, 0, inlined, g)
           ELSE IF c.f = g THEN CallPoints(f, c) ELSE 0])
\* ... and with the store of the point, which counts as an access to f.
ExprLoads(f, s, inlined, g) ==
    (IF g = f THEN 1 ELSE 0) + CallLoads(f, s, inlined, g)

\* The number of iterations of a loop nest with the given bounds.
LoopPoints(bounds) ==
    IF \E v \in DOMAIN bounds : get_extent(bounds[v]) = unknown THEN unknown
    ELSE ProdSeq([i \in 1..Cardinality(DOMAIN bounds) |->
                    Max(get_extent(bounds[SetToSeq(DOMAIN bounds)[i]]), 0)])

Cost(a, m) == [arith |-> a, memory |-> m]

\* A faulty stage_region_cost: a stage with an extern definition, which has
\* no values, costed as any other.
stage_region_cost_of_extern(f, s, bounds, inlined) ==
    IF LoopPoints(bounds) = unknown THEN Cost(unknown, unknown)
    ELSE Cost(LoopPoints(bounds) * ExprArith(f, s, inlined),
              LoopPoints(bounds)
                * SumSeq([i \in 1..(Cardinality(Funcs) + 1) |->
                            ExprLoads(f, s, inlined, i - 1)]))
\* RegionCosts::stage_region_cost; the cost of a stage with an extern
\* definition is unknown.
stage_region_cost(f, s, bounds, inlined) ==
    IF LoopPoints(bounds) = unknown \/ env[f].extern THEN Cost(unknown, unknown)
    ELSE Cost(LoopPoints(bounds) * ExprArith(f, s, inlined),
              LoopPoints(bounds)
                * SumSeq([i \in 1..(Cardinality(Funcs) + 1) |->
                            ExprLoads(f, s, inlined, i - 1)]))

\* RegionCosts::stage_detailed_load_costs: per name, the loads of the stage.
stage_detailed_load_costs(f, s, bounds, inlined) ==
    [g \in {h \in Funcs \cup {0} : ExprLoads(f, s, inlined, h) > 0} |->
        LoopPoints(bounds) * ExprLoads(f, s, inlined, g)]

\* The bounds of the stages of f that compute the box 'region' of f.
region_stage_bounds(f, s, region) ==
    get_stage_bounds(f, s,
        [v \in Range(env[f].args) |->
            region[CHOOSE i \in DOMAIN env[f].args : env[f].args[i] = v]])

\* RegionCosts::region_cost of a map of regions: the sum over the stages of
\* the functions that are not inlined; unknown if any of them is.
sum_region_costs(costs) ==
    IF \E i \in DOMAIN costs : costs[i].arith = unknown
    THEN Cost(unknown, unknown)
    ELSE Cost(SumSeq([i \in DOMAIN costs |-> costs[i].arith]),
              SumSeq([i \in DOMAIN costs |-> costs[i].memory]))
region_cost(regions, inlined) ==
    LET items == SetToSeq({st \in AllStages :
                              st[1] \in DOMAIN regions /\ st[1] \notin inlined})
    IN sum_region_costs(
           [i \in DOMAIN items |->
               stage_region_cost(items[i][1], items[i][2],
                   region_stage_bounds(items[i][1], items[i][2], regions[items[i][1]]),
                   inlined)])

\* RegionCosts::detailed_load_costs of a map of regions.
detailed_load_costs(regions, inlined) ==
    LET items == SetToSeq({st \in AllStages :
                              st[1] \in DOMAIN regions /\ st[1] \notin inlined})
        loads(st, g) ==
            LoopPoints(region_stage_bounds(st[1], st[2], regions[st[1]]))
              * ExprLoads(st[1], st[2], inlined, g)
    IN [g \in {h \in Funcs \cup {0} :
                 \E i \in DOMAIN items :
                     ExprLoads(items[i][1], items[i][2], inlined, h) > 0} |->
          SumSeq([i \in DOMAIN items |-> loads(items[i], g)])]

\* combine_load_costs: add the loads of 'partial' to those of 'result'.
combine_load_costs(result, partial) ==
    [g \in (DOMAIN result) \cup (DOMAIN partial) |->
        (IF g \in DOMAIN result THEN result[g] ELSE 0)
        + (IF g \in DOMAIN partial THEN partial[g] ELSE 0)]

\* RegionCosts::region_size and input_region_size: the bytes of a region
\* (one byte per value).
region_size(f, box) == box_size(box)

(***************************************************************************)
(* Partitioner: bounds and the analysis of a group.                        *)
(***************************************************************************)
Group(output, members) ==
    [output |-> output, members |-> members, inlined |-> {}, tile_sizes |-> <<>>]

GroupAnalysis(a, m, p) == [cost |-> Cost(a, m), parallelism |-> p]
UnknownAnalysis == GroupAnalysis(unknown, unknown, unknown)

\* Partitioner::get_bounds: the bounds of the loops of a stage, from the
\* pipeline bounds of its function.
get_bounds(stg) ==
    get_stage_bounds(stg[1], stg[2],
        [v \in Range(env[stg[1]].args) |->
            pipeline_bounds[stg[1]][CHOOSE d \in DOMAIN env[stg[1]].args :
                                       env[stg[1]].args[d] = v]])

\* A faulty get_bounds_from_tile_sizes: a dimension that holds a single tile
\* is tiled too.
get_bounds_from_one_tile(stg, tile_sizes) ==
    [var \in DimVars(stg[1], stg[2]) |->
        LET bound == get_bounds(stg)[var]
        IN IF var \in DOMAIN tile_sizes
           THEN IF get_extent(bound) >= tile_sizes[var]
                THEN Interval(0, tile_sizes[var] - 1)
                ELSE bound
           ELSE bound]

\* Partitioner::get_bounds_from_tile_sizes: the bounds of one tile.
get_bounds_from_tile_sizes(stg, tile_sizes) ==
    [var \in DimVars(stg[1], stg[2]) |->
        LET bound == get_bounds(stg)[var]
        IN IF var \in DOMAIN tile_sizes
           THEN IF get_extent(bound) >= 2 * tile_sizes[var]
                THEN Interval(0, tile_sizes[var] - 1)
                ELSE bound
           ELSE bound]

\* The tiles and the parallelism analyze_group counts along the dimensions
\* d.. of the output of g; unknown if a tiled dimension has no extent.
RECURSIVE count_tiles(_, _, _, _)
count_tiles(g, d, estimate_tiles, parallelism) ==
    LET dims == Dims(g.output[1], g.output[2])
    IN IF d > Len(dims) THEN [tiles |-> estimate_tiles, par |-> parallelism]
       ELSE IF dims[d].var \notin DOMAIN g.tile_sizes
       THEN count_tiles(g, d + 1, estimate_tiles, parallelism)
       ELSE LET extent == get_extent(get_bounds(g.output)[dims[d].var])
                dim_tiles == CeilDiv(extent, g.tile_sizes[dims[d].var])
            IN IF extent = unknown THEN [tiles |-> unknown, par |-> unknown]
               ELSE count_tiles(g, d + 1, estimate_tiles * dim_tiles,
                        IF can_parallelize_rvar(dims[d].var, g.output[1], g.output[2])
                        THEN parallelism * dim_tiles ELSE parallelism)

\* The factor of the cost of a load from an allocation of 'footprint' bytes:
\* linear in the footprint, clamped at the balance of the machine.
cost_factor(footprint) ==
    Min(1 + (footprint * arch_params.balance) \div arch_params.last_level_cache_size,
        arch_params.balance)

\* 'model_reuse' of analyze_group: whether the reuse within a tile is modelled.
model_reuse == FALSE

\* A faulty footprint: that of the later loads, from the region one tile
\* requires, is kept although the reuse is not modelled.
load_footprint_of_tile(g, f, alloc_regions, out_tile_extent) ==
    IF f = g.output[1] THEN region_size(f, out_tile_extent)
    ELSE region_size(f, alloc_regions[f])

\* The footprint analyze_group charges the loads from f with: for a member
\* that is not the output its allocated region in the tile; otherwise the
\* footprint of the first loads, the region of f in the whole pipeline,
\* replaces that of the later loads unless the reuse is modelled.
load_footprint(g, f, alloc_regions, out_tile_extent) ==
    LET is_group_member == f \in Names(Range(g.members))
        is_output == f = g.output[1]
        is_function == f \in Funcs
        initial_footprint == region_size(f, pipeline_bounds[f])
        footprint == IF ~is_function THEN region_size(f, alloc_regions[f])
                     ELSE IF is_output THEN region_size(f, out_tile_extent)
                     ELSE region_size(f, alloc_regions[f])
    IN IF ~is_output /\ is_group_member
       THEN region_size(f, alloc_regions[f])
       ELSE IF model_reuse THEN footprint ELSE initial_footprint

\* Partitioner::analyze_group, its last part: the cost of all the tiles from
\* the costs and the loads of one tile; unknown if any of them is.
analyze_costs(g, counted, alloc_regions, tile_cost, out_cost, group_load_costs, out_tile_extent) ==
    LET loads == SortedInts(DOMAIN group_load_costs)
        footprint(f) == load_footprint(g, f, alloc_regions, out_tile_extent)
        per_tile_arith == tile_cost.arith + out_cost.arith
        per_tile_memory ==
            SumSeq([i \in DOMAIN loads |->
                      cost_factor(footprint(loads[i])) * group_load_costs[loads[i]]])
    IN IF counted.tiles = unknown THEN UnknownAnalysis
       ELSE IF tile_cost.arith = unknown \/ tile_cost.memory = unknown THEN UnknownAnalysis
       ELSE IF out_cost.arith = unknown \/ out_cost.memory = unknown THEN UnknownAnalysis
       ELSE IF \E f \in DOMAIN alloc_regions : box_size(alloc_regions[f]) = unknown
            THEN UnknownAnalysis
       ELSE IF \E i \in DOMAIN loads : footprint(loads[i]) = unknown THEN UnknownAnalysis
       ELSE GroupAnalysis(per_tile_arith * counted.tiles,
                          per_tile_memory * counted.tiles, counted.par)

\* Partitioner::analyze_group, its middle part: the costs and the loads of one
\* tile from the regions of the members that the tile requires.
analyze_regions(g, tile_bounds, counted, alloc_regions, group_reg) ==
    analyze_costs(g, counted, alloc_regions,
        region_cost(group_reg, g.inlined),
        stage_region_cost(g.output[1], g.output[2], tile_bounds, g.inlined),
        combine_load_costs(detailed_load_costs(group_reg, g.inlined),
            stage_detailed_load_costs(g.output[1], g.output[2], tile_bounds, g.inlined)),
        IF g.output[2] = 0
        THEN [d \in 1..(Len(env[g.output[1]].args) - 1) |->
                 tile_bounds[env[g.output[1]].args[d]]]
        ELSE <<>>)

\* The regions of the members of the group other than the output's function.
group_regions(g, compute_regions) ==
    [f \in {h \in DOMAIN compute_regions :
               h \in Names(Range(g.members)) /\ h # g.output[1]} |-> compute_regions[f]]

\* Partitioner::analyze_group, from the bounds of one tile of the output.
analyze_tile(g, tile_bounds, counted) ==
    analyze_regions(g, tile_bounds, counted,
        regions_required(g.output[1], g.output[2], tile_bounds,
                         Names(Range(g.members)), FALSE),
        group_regions(g,
            regions_required(g.output[1], g.output[2], tile_bounds,
                             Names(Range(g.members)), TRUE)))

\* Partitioner::analyze_group.
analyze_group(g) ==
    analyze_tile(g, get_bounds_from_tile_sizes(g.output, g.tile_sizes),
                 count_tiles(g, 1, 1, 1))

(***************************************************************************)
(* Partitioner: tile configurations.                                       *)
(***************************************************************************)
min_inner_dim_size == 64
size_variants == <<1, 4, 8, 16, 32, 64, 128, 256>>

\* The map that gives the variable tile_vars[j] the size sizes[j], for the
\* positions j in 'sel'.
Tiling(tile_vars, sel, sizes) ==
    [v \in {tile_vars[j] : j \in sel} |->
        sizes[CHOOSE j \in sel : tile_vars[j] = v]]

\* A faulty push_back: a tiling already among the configurations is added
\* once more.
push_config_again(tile_configs, tiling) ==
    IF DOMAIN tiling = {} THEN tile_configs ELSE Append(tile_configs, tiling)

\* push_back unless the tiling is empty or already among the configurations.
push_config(tile_configs, tiling) ==
    IF DOMAIN tiling = {} \/ \E k \in DOMAIN tile_configs : tile_configs[k] = tiling
    THEN tile_configs
    ELSE Append(tile_configs, tiling)

RECURSIVE skewed_configs(_, _, _, _)
skewed_configs(tile_vars, i, k, tile_configs) ==
    LET n == Len(tile_vars)
        dim_size == size_variants[k]
        sizes == [j \in 1..n |->
                    IF j = i THEN (IF i = 1 THEN Max(dim_size, min_inner_dim_size)
                                   ELSE dim_size)
                    ELSE IF j < i THEN size_variants[Len(size_variants)]
                    ELSE size_variants[1]]
    IN IF i > n THEN tile_configs
       ELSE IF k > Len(size_variants)
       THEN skewed_configs(tile_vars, i + 1, 1, tile_configs)
       ELSE skewed_configs(tile_vars, i, k + 1,
                push_config(tile_configs, Tiling(tile_vars, 1..n, sizes)))

RECURSIVE square_configs(_, _, _)
square_configs(tile_vars, k, tile_configs) ==
    LET n == Len(tile_vars)
        sizes == [j \in 1..n |->
                    IF j = 1 THEN Max(size_variants[k], min_inner_dim_size)
                    ELSE size_variants[k]]
    IN IF k > Len(size_variants) THEN tile_configs
       ELSE square_configs(tile_vars, k + 1,
                push_config(tile_configs, Tiling(tile_vars, 1..n, sizes)))

RECURSIVE reorder_configs(_, _, _)
reorder_configs(tile_vars, i, tile_configs) ==
    LET n == Len(tile_vars)
        sel == {j \in 1..n : (i \div (2^(j - 1))) % 2 = 1}
        sizes == [j \in 1..n |-> IF j = 1 THEN min_inner_dim_size ELSE 1]
    IN IF i >= 2^n THEN tile_configs
       ELSE reorder_configs(tile_vars, i + 1,
                push_config(tile_configs, Tiling(tile_vars, sel, sizes)))

\* A faulty generate_tile_configs: the reduction variables tiled as well.
generate_tile_configs_all_dims(stg) ==
    LET dims == Dims(stg[1], stg[2])
        tile_vars == [j \in 1..Len(dims) |-> dims[j].var]
    IN reorder_configs(tile_vars, 0,
           square_configs(tile_vars, 1,
               skewed_configs(tile_vars, 1, 1, <<>>)))

\* Partitioner::generate_tile_configs.
generate_tile_configs(stg) ==
    LET dims == Dims(stg[1], stg[2])
        pure == SelectSeq(dims, LAMBDA d : ~d.rvar)
        tile_vars == [j \in 1..Len(pure) |-> pure[j].var]
    IN reorder_configs(tile_vars, 0,
           square_configs(tile_vars, 1,
               skewed_configs(tile_vars, 1, 1, <<>>)))

(***************************************************************************)
(* Partitioner: the benefit of a grouping.                                 *)
(***************************************************************************)
\* A faulty estimate_benefit: the costs of the old and the new grouping taken
\* the wrong way round.
estimate_benefit_swapped(old_grouping, new_grouping, no_redundant_work, ensure_parallelism) ==
    IF ensure_parallelism /\ new_grouping.parallelism < arch_params.parallelism
    THEN unknown
    ELSE IF old_grouping.cost.arith = unknown \/ new_grouping.cost.arith = unknown
    THEN unknown
    ELSE IF old_grouping.cost.memory = unknown \/ new_grouping.cost.memory = unknown
    THEN unknown
    ELSE (new_grouping.cost.memory - old_grouping.cost.memory)
         + (new_grouping.cost.arith - old_grouping.cost.arith)

\* A faulty estimate_benefit: the parallelism of the new grouping not looked at.
estimate_benefit_any_parallelism(old_grouping, new_grouping, no_redundant_work, ensure_parallelism) ==
    IF old_grouping.cost.arith = unknown \/ new_grouping.cost.arith = unknown
    THEN unknown
    ELSE IF no_redundant_work /\ old_grouping.cost.arith - new_grouping.cost.arith < 0
    THEN unknown
    ELSE IF old_grouping.cost.memory = unknown \/ new_grouping.cost.memory = unknown
    THEN unknown
    ELSE (old_grouping.cost.memory - new_grouping.cost.memory)
         + (old_grouping.cost.arith - new_grouping.cost.arith)

\* Partitioner::estimate_benefit(old_grouping, new_grouping, no_redundant_work,
\* ensure_parallelism).
estimate_benefit(old_grouping, new_grouping, no_redundant_work, ensure_parallelism) ==
    IF ensure_parallelism /\ new_grouping.parallelism < arch_params.parallelism
    THEN unknown
    ELSE IF old_grouping.cost.arith = unknown \/ new_grouping.cost.arith = unknown
    THEN unknown
    ELSE IF no_redundant_work /\ old_grouping.cost.arith - new_grouping.cost.arith < 0
    THEN unknown
    ELSE IF old_grouping.cost.memory = unknown \/ new_grouping.cost.memory = unknown
    THEN unknown
    ELSE (old_grouping.cost.memory - new_grouping.cost.memory)
         + (old_grouping.cost.arith - new_grouping.cost.arith)

\* The loop of find_best_tile_config over the configurations.
RECURSIVE best_tile_loop(_, _, _, _)
\* A faulty step: a configuration as good as the best so far replaces it.
best_tile_step_or_equal(g, configs, best_config, best_analysis, new_analysis) ==
    IF estimate_benefit(best_analysis, new_analysis, FALSE, TRUE) >= 0
    THEN best_tile_loop(g, Tail(configs), Head(configs), new_analysis)
    ELSE best_tile_loop(g, Tail(configs), best_config, best_analysis)
best_tile_step(g, configs, best_config, best_analysis, new_analysis) ==
    IF estimate_benefit(best_analysis, new_analysis, FALSE, TRUE) > 0
    THEN best_tile_loop(g, Tail(configs), Head(configs), new_analysis)
    ELSE best_tile_loop(g, Tail(configs), best_config, best_analysis)
best_tile_loop(g, configs, best_config, best_analysis) ==
    IF configs = <<>> THEN [tile_sizes |-> best_config, analysis |-> best_analysis]
    ELSE best_tile_step(g, configs, best_config, best_analysis,
                        analyze_group([g EXCEPT !.tile_sizes = Head(configs)]))

\* Partitioner::find_best_tile_config: from the analysis without tiling ...
best_tile_from(g, no_tile_analysis) ==
    IF no_tile_analysis.cost.arith = unknown
    THEN [tile_sizes |-> <<>>, analysis |-> no_tile_analysis]
    ELSE best_tile_loop(g, generate_tile_configs(g.output), <<>>, no_tile_analysis)
\* ... which it takes first.
find_best_tile_config(g) ==
    best_tile_from(g, analyze_group([g EXCEPT !.tile_sizes = <<>>]))

\* INLINE and FAST_MEM, the levels of Partitioner::Level.
Levels == {"INLINE", "FAST_MEM"}

\* Partitioner::merge_groups(prod_group, cons_group).
merge_two_groups(prod_group, cons_group) ==
    [output |-> cons_group.output,
     members |-> prod_group.members \o cons_group.members,
     inlined |-> prod_group.inlined \cup cons_group.inlined,
     tile_sizes |-> <<>>]

RECURSIVE merge_prod_groups(_, _, _)
merge_prod_groups(prod, s, group) ==
    IF s >= num_stages(prod) THEN group
    ELSE merge_prod_groups(prod, s + 1, merge_two_groups(groups[<<prod, s>>], group))

\* A grouping choice: the function 'prod' grouped into the stage 'cons'.
GroupingChoice(prod, cons) == [prod |-> prod, cons |-> cons]

\* Partitioner::evaluate_choice.
evaluate_choice(choice, level) ==
    LET cons == groups[choice.cons]
        group == merge_prod_groups(choice.prod, 0, cons)
        tile_sizes == [v \in DimVars(cons.output[1], cons.output[2]) |-> 1]
        prod_members == UNION {Range(groups[st].members) : st \in StagesOf(choice.prod)}
        inlined_group ==
            [group EXCEPT !.tile_sizes = tile_sizes,
                          !.inlined = @ \cup Names(prod_members) \cup cons.inlined]
    IN IF level = "INLINE"
       THEN [tile_sizes |-> tile_sizes, analysis |-> analyze_group(inlined_group)]
       ELSE find_best_tile_config(group)

\* std::numeric_limits<int64_t>::max()
IntMax == 2^(IntBits - 1) - 1

\* A faulty sum of analyses: an unknown analysis is left out of the sum.
RECURSIVE sum_analyses_known(_, _)
sum_analyses_known(a, acc) ==
    IF a = <<>> THEN acc
    ELSE IF Head(a).cost.arith = unknown THEN sum_analyses_known(Tail(a), acc)
    ELSE sum_analyses_known(Tail(a),
             GroupAnalysis(acc.cost.arith + Head(a).cost.arith,
                           acc.cost.memory + Head(a).cost.memory,
                           Min(acc.parallelism, Head(a).parallelism)))

\* The sum of the analyses a[1..], as the loops of estimate_benefit(choices, ..)
\* take it: unknown as soon as one of them is.
RECURSIVE sum_analyses(_, _)
sum_analyses(a, acc) ==
    IF a = <<>> THEN acc
    ELSE IF Head(a).cost.arith = unknown THEN UnknownAnalysis
    ELSE sum_analyses(Tail(a),
             GroupAnalysis(acc.cost.arith + Head(a).cost.arith,
                           acc.cost.memory + Head(a).cost.memory,
                           Min(acc.parallelism, Head(a).parallelism)))

\* Partitioner::estimate_benefit(choices, no_redundant_work, ensure_parallelism);
\* a choice is a pair <<GroupingChoice, GroupConfig>>.
estimate_choices_benefit(choices, no_redundant_work, ensure_parallelism) ==
    LET no_merge_groups ==
            UNION {StagesOf(choices[i][1].prod) \cup {choices[i][1].cons} :
                     i \in DOMAIN choices}
        old == SortedStages(no_merge_groups)
        new_group_analysis ==
            sum_analyses([i \in DOMAIN choices |-> choices[i][2].analysis],
                         GroupAnalysis(0, 0, IntMax))
        old_group_analysis ==
            sum_analyses([i \in DOMAIN old |-> group_costs[old[i]]],
                         GroupAnalysis(0, 0, IntMax))
    IN estimate_benefit(old_group_analysis, new_group_analysis,
                        no_redundant_work, ensure_parallelism)

(***************************************************************************)
(* Partitioner: the grouping.                                              *)
(***************************************************************************)
\* A faulty merge_groups: the child takes the tile sizes and the inlined
\* names, and none of the members of the producer.
merge_groups_without_members(gs, choice, eval, level) ==
    [gs[choice.cons] EXCEPT
        !.inlined = IF level = "INLINE"
                    THEN @ \cup Names(UNION {Range(gs[st].members) : st \in StagesOf(choice.prod)})
                    ELSE @ \cup UNION {gs[st].inlined : st \in StagesOf(choice.prod)},
        !.tile_sizes = eval.tile_sizes]

\* A faulty merge_groups: at level FAST_MEM too the names of the members of
\* the producer are marked inlined.
RECURSIVE merge_stage_loop_inlining(_, _, _, _, _)
merge_stage_loop_inlining(gs, prod, s, child_group, level) ==
    IF s >= num_stages(prod) THEN child_group
    ELSE LET cand_group == gs[<<prod, s>>]
         IN merge_stage_loop_inlining(gs, prod, s + 1,
                [child_group EXCEPT
                    !.members = @ \o cand_group.members,
                    !.inlined = @ \cup Names(Range(cand_group.members))],
                level)
merge_groups_inlining(gs, choice, eval, level) ==
    [merge_stage_loop_inlining(gs, choice.prod, 0, gs[choice.cons], level)
        EXCEPT !.tile_sizes = eval.tile_sizes]

\* A faulty merge_groups: only the final stage of the producer is merged.
merge_groups_final_stage(gs, choice, eval, level) ==
    LET cand_group == gs[<<choice.prod, env[choice.prod].updates>>]
    IN [gs[choice.cons] EXCEPT
           !.members = @ \o cand_group.members,
           !.inlined = IF level = "INLINE"
                       THEN @ \cup Names(Range(cand_group.members))
                       ELSE @ \cup cand_group.inlined,
           !.tile_sizes = eval.tile_sizes]

\* A faulty merge_groups: at level INLINE the names of all the members of the
\* merged group, the child's own among them, are marked inlined.
RECURSIVE merge_stage_loop_all(_, _, _, _, _)
merge_stage_loop_all(gs, prod, s, child_group, level) ==
    IF s >= num_stages(prod) THEN child_group
    ELSE LET cand_group == gs[<<prod, s>>]
             members == child_group.members \o cand_group.members
         IN merge_stage_loop_all(gs, prod, s + 1,
                [child_group EXCEPT
                    !.members = members,
                    !.inlined = IF level = "INLINE"
                                THEN @ \cup Names(Range(members))
                                ELSE @ \cup cand_group.inlined],
                level)
merge_groups_inline_all(gs, choice, eval, level) ==
    [merge_stage_loop_all(gs, choice.prod, 0, gs[choice.cons], level)
        EXCEPT !.tile_sizes = eval.tile_sizes]

\* Partitioner::merge_groups(choice, eval, level): the group of the child
\* after every stage of the producer has been merged into it.
RECURSIVE merge_stage_loop(_, _, _, _, _)
merge_stage_loop(gs, prod, s, child_group, level) ==
    IF s >= num_stages(prod) THEN child_group
    ELSE LET cand_group == gs[<<prod, s>>]
         IN merge_stage_loop(gs, prod, s + 1,
                [child_group EXCEPT
                    !.members = @ \o cand_group.members,
                    !.inlined = IF level = "INLINE"
                                THEN @ \cup Names(Range(cand_group.members))
                                ELSE @ \cup cand_group.inlined],
                level)

merge_groups(gs, choice, eval, level) ==
    [merge_stage_loop(gs, choice.prod, 0, gs[choice.cons], level)
        EXCEPT !.tile_sizes = eval.tile_sizes]

\* The loop of Partitioner::group over the choices of the best candidate.
RECURSIVE merge_best(_, _, _)
merge_best(st, best, level) ==
    IF best = <<>> THEN st
    ELSE LET child == Head(best)[1].cons
             child_group == merge_groups(st.groups, Head(best)[1], Head(best)[2], level)
         IN merge_best([groups |-> [st.groups EXCEPT ![child] = child_group],
                        group_costs |-> [st.group_costs EXCEPT
                                            ![child] = analyze_group(child_group)]],
                       Tail(best), level)

\* Partitioner::get_pipeline_cost over the groups gs with the costs 'costs'.
RECURSIVE sum_costs(_, _, _)
sum_costs(keys, costs, total_cost) ==
    IF keys = <<>> THEN total_cost
    ELSE sum_costs(Tail(keys), costs,
             Cost(Wrap(total_cost.arith + costs[Head(keys)].cost.arith),
                  Wrap(total_cost.memory + costs[Head(keys)].cost.memory)))
get_pipeline_cost(gs, costs) == sum_costs(SortedStages(DOMAIN gs), costs, Cost(0, 0))

\* The candidates of an iteration of Partitioner::group: pairs
\* <<producer, consumer>>, the consumer 0 (the empty name) at level INLINE.
is_candidate_group(st) ==
    /\ \A i \in DOMAIN outputs : outputs[i] # st[1]
    /\ st[2] = env[st[1]].updates
    /\ st \in DOMAIN children
\* Faulty candidates: at level FAST_MEM a producer with children in several
\* functions is a candidate too.
RECURSIVE candidates_any_children(_, _)
candidates_any_children(keys, level) ==
    IF keys = <<>> THEN <<>>
    ELSE LET st == Head(keys)
             child_groups == Names(children[st])
             rest == candidates_any_children(Tail(keys), level)
         IN IF ~is_candidate_group(st) THEN rest
            ELSE IF level = "FAST_MEM"
            THEN <<<<st[1], CHOOSE c \in child_groups : TRUE>>>> \o rest
            ELSE IF level = "INLINE" /\ env[st[1]].updates = 0
            THEN <<<<st[1], 0>>>> \o rest
            ELSE rest

RECURSIVE candidates(_, _)
candidates(keys, level) ==
    IF keys = <<>> THEN <<>>
    ELSE LET st == Head(keys)
             child_groups == Names(children[st])
             rest == candidates(Tail(keys), level)
         IN IF ~is_candidate_group(st) THEN rest
            ELSE IF Cardinality(child_groups) = 1 /\ level = "FAST_MEM"
            THEN <<<<st[1], CHOOSE c \in child_groups : TRUE>>>> \o rest
            ELSE IF level = "INLINE" /\ env[st[1]].updates = 0
            THEN <<<<st[1], 0>>>> \o rest
            ELSE rest

\* The choices of a candidate producer, one per child of its final stage,
\* each with its configuration: the cached one, or the one evaluate_choice
\* gives, which is then cached.
RECURSIVE candidate_choices(_, _, _, _)
with_choice(cand_choice, best_config, rest) ==
    [choices |-> <<<<cand_choice, best_config>>>> \o rest.choices,
     cache |-> rest.cache]
cached_choice(prod, cs, cache, level, cand_choice, best_config) ==
    with_choice(cand_choice, best_config,
        candidate_choices(prod, Tail(cs),
            [k \in (DOMAIN cache) \cup {cand_choice} |->
                IF k = cand_choice THEN best_config ELSE cache[k]],
            level))
candidate_choices(prod, cs, cache, level) ==
    IF cs = <<>> THEN [choices |-> <<>>, cache |-> cache]
    ELSE cached_choice(prod, cs, cache, level, GroupingChoice(prod, Head(cs)),
             IF GroupingChoice(prod, Head(cs)) \in DOMAIN cache
             THEN cache[GroupingChoice(prod, Head(cs))]
             ELSE evaluate_choice(GroupingChoice(prod, Head(cs)), level))

\* A faulty comparison: a candidate as good as the best so far replaces it.
is_better_or_equal(best_benefit, overall_benefit) == best_benefit <= overall_benefit

\* Whether choose_candidate_grouping replaces the best choice found so far.
is_better(best_benefit, overall_benefit) == best_benefit < overall_benefit

\* Partitioner::choose_candidate_grouping: the loop over the candidates.
\* 'benefits' records the benefit estimated for each candidate.
RECURSIVE choose_loop(_, _, _)
choose_best(cands, level, acc, prod_f, cc, overall_benefit) ==
    choose_loop(Tail(cands), level,
        [best_choices |-> IF is_better(acc.best_benefit, overall_benefit)
                          THEN cc.choices ELSE acc.best_choices,
         best_benefit |-> IF is_better(acc.best_benefit, overall_benefit)
                          THEN overall_benefit ELSE acc.best_benefit,
         cache |-> cc.cache,
         benefits |-> Append(acc.benefits,
                         [prod |-> prod_f, benefit |-> overall_benefit,
                          choices |-> cc.choices])])
choose_benefit(cands, level, acc, prod_f, cc) ==
    choose_best(cands, level, acc, prod_f, cc,
                estimate_choices_benefit(cc.choices, FALSE, TRUE))
choose_loop(cands, level, acc) ==
    IF cands = <<>> THEN acc
    ELSE choose_benefit(cands, level, acc, Head(cands)[1],
             candidate_choices(Head(cands)[1],
                 SortedStages(children[<<Head(cands)[1], env[Head(cands)[1]].updates>>]),
                 acc.cache, level))
choose_candidate_grouping(cands, level) ==
    choose_loop(cands, level,
        [best_choices |-> <<>>, best_benefit |-> 0, cache |-> grouping_cache,
         benefits |-> <<>>])

\* A faulty invalidation: only the entries of the producers are removed.
invalid_keys_of_producers(cache, prod_group_children) ==
    {k \in DOMAIN cache : \E c \in prod_group_children : k.prod = c[1]}

\* A faulty invalidation: the entries of the consumers merged into stay.
invalid_keys_of_producer_names(cache, prod_group_children) ==
    {k \in DOMAIN cache : \E c \in prod_group_children : k.prod = c[1] /\ k.cons # c}

\* The entries of the grouping cache that a merge into the stages
\* prod_group_children invalidates.
invalid_keys(cache, prod_group_children) ==
    {k \in DOMAIN cache :
        \E c \in prod_group_children : k.prod = c[1] \/ k.cons = c}

\* A faulty update of the graph: the stages of the producer are removed, and
\* their parents are left without the children of the producer.
RECURSIVE erase_producer_only(_, _, _, _)
erase_producer_only(st, prod, s, prod_group_children) ==
    IF s >= num_stages(prod) THEN st
    ELSE LET prod_group == <<prod, s>>
             keep(m) == [k \in (DOMAIN m) \ {prod_group} |-> m[k]]
             ch == keep(st.children)
         IN erase_producer_only(
                [groups |-> keep(st.groups),
                 group_costs |-> keep(st.group_costs),
                 children |-> [k \in DOMAIN ch |-> ch[k] \ {prod_group}]],
                prod, s + 1, prod_group_children)

\* A faulty update of the graph: the analyses of the stages of the producer
\* are left in group_costs, and the stages left in the sets of children.
RECURSIVE erase_producer_groups(_, _, _, _)
erase_producer_groups(st, prod, s, prod_group_children) ==
    IF s >= num_stages(prod) THEN st
    ELSE LET prod_group == <<prod, s>>
             keep(m) == [k \in (DOMAIN m) \ {prod_group} |-> m[k]]
         IN erase_producer_groups(
                [groups |-> keep(st.groups),
                 group_costs |-> st.group_costs,
                 children |-> keep(st.children)],
                prod, s + 1, prod_group_children)

\* A faulty update of the graph: the stages of the producer stay in groups
\* and group_costs.
RECURSIVE erase_producer_children(_, _, _, _)
erase_producer_children(st, prod, s, prod_group_children) ==
    IF s >= num_stages(prod) THEN st
    ELSE LET prod_group == <<prod, s>>
             keep(m) == [k \in (DOMAIN m) \ {prod_group} |-> m[k]]
             ch == keep(st.children)
         IN erase_producer_children(
                [groups |-> st.groups,
                 group_costs |-> st.group_costs,
                 children |-> [k \in DOMAIN ch |->
                                 IF prod_group \in ch[k]
                                 THEN (ch[k] \ {prod_group}) \cup prod_group_children
                                 ELSE ch[k]]],
                prod, s + 1, prod_group_children)

\* The loop of Partitioner::group that removes the stages of the producer
\* and makes the parents of each point to the children of its final stage.
RECURSIVE erase_producer(_, _, _, _)
erase_producer(st, prod, s, prod_group_children) ==
    IF s >= num_stages(prod) THEN st
    ELSE LET prod_group == <<prod, s>>
             keep(m) == [k \in (DOMAIN m) \ {prod_group} |-> m[k]]
             ch == keep(st.children)
         IN erase_producer(
                [groups |-> keep(st.groups),
                 group_costs |-> keep(st.group_costs),
                 children |-> [k \in DOMAIN ch |->
                                 IF prod_group \in ch[k]
                                 THEN (ch[k] \ {prod_group}) \cup prod_group_children
                                 ELSE ch[k]]],
                prod, s + 1, prod_group_children)

(***************************************************************************)
(* generate_schedules.                                                     *)
(***************************************************************************)
\* validate_no_partial_schedules(f) passes: every user_assert holds.  Lines
\* 2594-2624: the dimensions of an update definition are its reduction
\* variables in their order, then pure variables whose places among the
\* arguments of the function increase.
update_not_reordered(f, stage) ==
    LET dims == env[f].dims[stage + 1]
        rvars == env[f].rvars[stage]
        is_rvar(d) == dims[d] \notin Range(env[f].args)
        index(d) == CHOOSE i \in DOMAIN env[f].args : env[f].args[i] = dims[d]
    IN /\ \A i \in 1..Len(rvars) : is_rvar(i) /\ dims[i] = rvars[i].var
       /\ \A i \in (Len(rvars) + 1)..Len(dims) :
             /\ ~is_rvar(i)
             /\ i > Len(rvars) + 1 => index(i) > index(i - 1)
\* A faulty validation: the order of the loops of the update definitions
\* left unchecked.
validate_pure_definition_only(f) ==
    \A stage \in 0..env[f].updates :
        /\ ~env[f].splits
        /\ ~env[f].bounds
        /\ ~env[f].non_serial
        /\ (~env[f].extern /\ stage = 0) =>
              /\ ~env[f].specializations
              /\ \A i \in DOMAIN env[f].args : env[f].args[i] = env[f].dims[1][i]
validate_no_partial_schedules(f) ==
    \A stage \in 0..env[f].updates :
        /\ ~env[f].splits
        /\ ~env[f].bounds
        /\ ~env[f].non_serial
        /\ ~env[f].extern =>
              IF stage = 0
              THEN /\ ~env[f].specializations
                   /\ \A i \in DOMAIN env[f].args : env[f].args[i] = env[f].dims[1][i]
              ELSE update_not_reordered(f, stage)

\* check_estimates_on_outputs.
RECURSIVE estimates_loop(_, _, _)
estimates_loop(estimates, out_args, i) ==
    IF i > Len(estimates) THEN TRUE
    ELSE IF estimates[i].var \notin Range(out_args) \/ ~estimates[i].int THEN FALSE
    ELSE estimates_loop(estimates, out_args, i + 1)
RECURSIVE check_estimates_loop(_, _)
check_estimates_loop(outs, estimates_avail) ==
    IF outs = <<>> THEN estimates_avail
    ELSE LET estimates == env[Head(outs)].estimates
             out_args == env[Head(outs)].args
         IN IF Len(estimates) # Len(out_args) THEN FALSE
            ELSE check_estimates_loop(Tail(outs),
                    estimates_avail /\ estimates_loop(estimates, out_args, 1))
check_estimates_on_outputs(outs) == check_estimates_loop(outs, TRUE)

\* set_schedule_defaults: every stage of every function stored and computed
\* at root.
LoopLevel(l) == [store_level |-> l, compute_level |-> l]
set_schedule_defaults == [st \in AllStages |-> LoopLevel("root")]

\* The constructor of Partitioner: every stage in a group of its own ...
initial_groups == [stg \in AllStages |-> Group(stg, <<stg>>)]
\* ... and the children of every stage: the stages that call its function,
\* if it is the final stage, and the next stage of its function.
initial_children ==
    LET cons_of(prod_stage) ==
            {cons_stage \in AllStages :
                \/ /\ prod_stage[1] \in get_parents(cons_stage[1], cons_stage[2])
                   /\ prod_stage[1] # cons_stage[1]
                   /\ prod_stage[2] = env[prod_stage[1]].updates
                \/ /\ cons_stage[2] > 0
                   /\ prod_stage = <<cons_stage[1], cons_stage[2] - 1>>}
    IN [prod_stage \in {st \in AllStages : cons_of(st) # {}} |-> cons_of(prod_stage)]

\* Partitioner::initialize_groups: the best tile configuration of every group.
initialize_groups ==
    [stg \in DOMAIN groups |-> find_best_tile_config(groups[stg])]

\* What 'last' holds when no iteration of Partitioner::group has run.
NoIteration ==
    [level |-> "none", merged |-> FALSE, prod |-> 0, prod_group_children |-> {},
     benefits |-> <<>>, best |-> <<>>, pre_merge |-> Cost(0, 0),
     post_merge |-> Cost(0, 0), pre_groups |-> <<>>, pre_children |-> <<>>,
     pre_cache |-> <<>>, pre_costs |-> <<>>, merges |-> 0]

Init ==
    /\ pc = "start"
    /\ \E p \in Pipelines :
       \E e \in p.extents :
       \E arith \in [1..Len(p.funcs) -> {1, MaxArith}] :
       \E user \in UserSchedules(p.funcs[1]) :
       \E est \in [Range(p.outputs) ->
                      UNION {EstimateCases(p.funcs[o].args, e, Height(p, e)) :
                                o \in Range(p.outputs)}] :
            /\ \A o \in Range(p.outputs) :
                  est[o] \in EstimateCases(p.funcs[o].args, e, Height(p, e))
            /\ arch_params \in Machines(p)
            /\ outputs = p.outputs
            /\ env = [f \in 1..Len(p.funcs) |->
                        [args |-> p.funcs[f].args, updates |-> p.funcs[f].updates,
                         calls |-> p.funcs[f].calls, rvars |-> p.funcs[f].rvars,
                         extern |-> p.funcs[f].extern, arith |-> arith[f],
                         estimates |-> IF f \in Range(p.outputs) THEN est[f] ELSE <<>>,
                         dims |-> IF f = 1 THEN user.dims ELSE DeclaredDims(p.funcs[f]),
                         splits |-> user.splits /\ f = 1,
                         bounds |-> user.bounds /\ f = 1,
                         non_serial |-> user.non_serial /\ f = 1,
                         specializations |-> user.specializations /\ f = 1]]
    /\ schedule = [st \in AllStages |-> LoopLevel("inlined")]
    /\ sched = <<>>
    /\ pipeline_bounds = <<>>
    /\ groups = <<>>
    /\ children = <<>>
    /\ group_costs = <<>>
    /\ grouping_cache = <<>>
    /\ last = NoIteration

\* generate_schedules, lines 2645-2648: a function with a partial schedule
\* is a user error.
Validate ==
    /\ pc = "start"
    /\ pc' = IF \A f \in Funcs : validate_no_partial_schedules(f)
             THEN "validated" ELSE "user_error"
    /\ UNCHANGED <<env, outputs, schedule, sched, pipeline_bounds, groups,
                   children, group_costs, grouping_cache, last, arch_params>>

\* generate_schedules, lines 2657-2665: without the estimates every stage is
\* computed and stored at root and the empty transcript is returned.
MissingEstimates ==
    /\ pc = "validated"
    /\ ~check_estimates_on_outputs(outputs)
    /\ schedule' = set_schedule_defaults
    /\ pc' = "done"
    /\ UNCHANGED <<env, outputs, sched, pipeline_bounds, groups, children,
                   group_costs, grouping_cache, last, arch_params>>

\* generate_schedules, lines 2667-2677: the pipeline bounds and the
\* Partitioner.
Construct ==
    /\ pc = "validated"
    /\ check_estimates_on_outputs(outputs)
    /\ pipeline_bounds' = get_pipeline_bounds
    /\ groups' = initial_groups
    /\ children' = initial_children
    /\ pc' = "constructed"
    /\ UNCHANGED <<env, outputs, schedule, sched, group_costs, grouping_cache,
                   last, arch_params>>

\* part.initialize_groups()
InitializeGroups ==
    /\ pc = "constructed"
    /\ \E best \in {initialize_groups} :
         /\ groups' = [stg \in DOMAIN groups |->
                         [groups[stg] EXCEPT !.tile_sizes = best[stg].tile_sizes]]
         /\ group_costs' = [stg \in DOMAIN groups |-> best[stg].analysis]
    /\ grouping_cache' = <<>>
    /\ pc' = "INLINE"
    /\ UNCHANGED <<env, outputs, schedule, sched, pipeline_bounds, children,
                   last, arch_params>>

\* One iteration of the loop of Partitioner::group, up to the choice of the
\* best candidate.
choose_iteration(level) ==
    choose_candidate_grouping(candidates(SortedStages(DOMAIN groups), level), level)

\* The rest of an iteration that merges: what it leaves in the Partitioner.
apply_best(best, cache, level) ==
    LET prod == best[1][1].prod
        final_stage == <<prod, num_stages(prod) - 1>>
        prod_group_children == children[final_stage]
        kept == (DOMAIN cache) \ invalid_keys(cache, prod_group_children)
        merged == merge_best([groups |-> groups, group_costs |-> group_costs],
                             best, level)
        erased == erase_producer([groups |-> merged.groups,
                                  group_costs |-> merged.group_costs,
                                  children |-> children],
                                 prod, 0, prod_group_children)
    IN [prod |-> prod, prod_group_children |-> prod_group_children,
        grouping_cache |-> [k \in kept |-> cache[k]],
        groups |-> erased.groups, group_costs |-> erased.group_costs,
        children |-> erased.children]

\* An iteration of Partitioner::group that finds a best candidate and merges
\* it; the assertion that closes the iteration ends the run if it fails.
GroupMerge(level) ==
    /\ pc = level
    /\ \E r \in {choose_iteration(level)} :
         /\ r.best_choices # <<>>
         /\ \E m \in {apply_best(r.best_choices, r.cache, level)} :
            LET pre_merge == get_pipeline_cost(groups, group_costs)
                post_merge == get_pipeline_cost(m.groups, m.group_costs)
            IN /\ groups' = m.groups
               /\ group_costs' = m.group_costs
               /\ children' = m.children
               /\ grouping_cache' = m.grouping_cache
               /\ last' = [level |-> level, merged |-> TRUE, prod |-> m.prod,
                           prod_group_children |-> m.prod_group_children,
                           benefits |-> r.benefits, best |-> r.best_choices,
                           pre_merge |-> pre_merge, post_merge |-> post_merge,
                           pre_groups |-> groups, pre_children |-> children,
                           pre_cache |-> r.cache, pre_costs |-> group_costs,
                           merges |-> last.merges + 1]
               /\ pc' = IF Wrap(pre_merge.arith + pre_merge.memory)
                            >= Wrap(post_merge.arith + post_merge.memory)
                        THEN level ELSE "internal_error"
    /\ UNCHANGED <<env, outputs, schedule, sched, pipeline_bounds,
                   arch_params>>

\* The iteration of Partitioner::group that finds no candidate to merge: the
\* fixpoint, which ends the pass.
GroupFixpoint(level) ==
    /\ pc = level
    /\ \E r \in {choose_iteration(level)} :
         /\ r.best_choices = <<>>
         /\ grouping_cache' = r.cache
         /\ last' = [NoIteration EXCEPT !.level = level, !.benefits = r.benefits,
                                        !.pre_groups = groups,
                                        !.pre_children = children,
                                        !.pre_cache = r.cache,
                                        !.pre_costs = group_costs,
                                        !.merges = last.merges]
    /\ pc' = IF level = "INLINE" THEN "inlined" ELSE "grouped"
    /\ UNCHANGED <<env, outputs, schedule, sched, pipeline_bounds, groups,
                   children, group_costs, arch_params>>

\* generate_schedules, line 2708: part.grouping_cache.clear()
ClearCache ==
    /\ pc = "inlined"
    /\ grouping_cache' = <<>>
    /\ pc' = "FAST_MEM"
    /\ UNCHANGED <<env, outputs, schedule, sched, pipeline_bounds, groups,
                   children, group_costs, last, arch_params>>

(***************************************************************************)
(* The emission of the schedule: where every function is computed and how  *)
(* the loops of every stage are split, ordered, vectorized and run in      *)
(* parallel.                                                               *)
(***************************************************************************)
Directive(op, func, at) ==
    [op |-> op, func |-> func, at |-> at, dims |-> <<>>, factor |-> 0]
\* A directive on the loops of the stage stg: split, reorder, vectorize or
\* parallel, with the dimensions it names and the factor of a split.
StageDirective(op, stg, ds, factor) ==
    [op |-> op, func |-> stg[1], at |-> stg[2], dims |-> ds, factor |-> factor]

\* Target::natural_vector_size of the types of the values of a function.
vec_len == 4
\* The bytes of one value of a function or of an input.
bytes_per_ele == 4

\* The dimensions of the schedule of a stage as the emitter sees them: the
\* name of a dimension and whether Dim::is_pure holds of it (a pure variable,
\* or a reduction variable of a definition that allows it to be reordered).
schedule_dims(stg) ==
    [d \in DOMAIN Dims(stg[1], stg[2]) |->
        [var |-> Dims(stg[1], stg[2])[d].var,
         pure |-> ~Dims(stg[1], stg[2])[d].rvar \/ Dims(stg[1], stg[2])[d].par]]

\* Partitioner::bounds_to_estimates.
bounds_to_estimates(bounds) == [v \in DOMAIN bounds |-> get_extent(bounds[v])]

\* Partitioner::group_storage_bounds, for the group g.
group_storage_bounds(g) ==
    LET reg_alloc ==
            regions_required(g.output[1], g.output[2],
                get_bounds_from_tile_sizes(g.output, g.tile_sizes),
                Names(Range(g.members)), FALSE)
    IN [f \in (Names(Range(g.members)) \cap DOMAIN reg_alloc) \ {g.output[1]} |->
           reg_alloc[f]]

\* Partitioner::group_loop_bounds, for the group g.  The extent of a region
\* is stored in an int: of 'unknown' the low bits are zero.
member_loop_bounds(g, reg_computed) ==
    [s \in {m \in Range(g.members) : m[1] \in DOMAIN reg_computed} |->
        get_bounds_from_tile_sizes(s,
            [v \in Range(env[s[1]].args) |->
                LET extent == get_extent(reg_computed[s[1]][
                        CHOOSE arg \in DOMAIN env[s[1]].args : env[s[1]].args[arg] = v])
                IN IF extent = unknown THEN 0 ELSE extent])]
group_loop_bounds(g) ==
    member_loop_bounds(g,
        regions_required(g.output[1], g.output[2],
            get_bounds_from_tile_sizes(g.output, g.tile_sizes),
            Names(Range(g.members)), TRUE))

\* The calls left in the definition of stage s of f once the functions of
\* 'inlined' are substituted into it: the function called, the number of
\* the calls, and whether their indices mention the reduction variables of
\* the stage (rv: those of the call being substituted).
RECURSIVE call_args(_, _, _, _)
call_args_of(f, c, inlined, rv) ==
    IF c.f \in inlined /\ c.f \in Funcs /\ c.f # f
    THEN LET sub == call_args(c.f, 0, inlined, rv \/ c.rv)
         IN [i \in DOMAIN sub |-> [sub[i] EXCEPT !.n = CallPoints(f, c) * sub[i].n]]
    ELSE <<[f |-> c.f, n |-> CallPoints(f, c), rv |-> rv \/ c.rv]>>
RECURSIVE call_args_loop(_, _, _, _)
call_args_loop(f, calls, inlined, rv) ==
    IF calls = <<>> THEN <<>>
    ELSE call_args_of(f, Head(calls), inlined, rv)
         \o call_args_loop(f, Tail(calls), inlined, rv)
call_args(f, s, inlined, rv) ==
    call_args_loop(f, SetToSeq(env[f].calls[s + 1]), inlined, rv)

\* Partitioner::find_max_access_stride: the greatest stride, in bytes, with
\* which a loop over 'var' walks the allocation of func_acc; 'uses' are the
\* storage dimensions whose index mentions var.
RECURSIVE stride_loop(_, _, _, _, _, _)
stride_loop(uses, buffer_bounds, num_storage_dims, sdim, curr_stride, stride) ==
    IF sdim > num_storage_dims THEN stride
    ELSE stride_loop(uses, buffer_bounds, num_storage_dims, sdim + 1,
             Wrap(curr_stride * get_extent(buffer_bounds[sdim])),
             IF sdim \in uses THEN Max(stride, curr_stride) ELSE stride)
find_max_access_stride(uses, func_acc, buffer_bounds) ==
    stride_loop(uses, buffer_bounds,
        IF func_acc \in Funcs THEN Len(env[func_acc].args) ELSE Len(buffer_bounds),
        1, bytes_per_ele, 0)

\* Partitioner::analyze_spatial_locality: for every dimension of the stage,
\* the sum of the strides of its accesses, those of the inlined functions it
\* calls among them, and of its store.
total_stride(stg, var, accessed, allocation_bounds) ==
    SumSeq([i \in DOMAIN accessed |->
        accessed[i].n
        * find_max_access_stride(
              {sdim \in DOMAIN env[stg[1]].args :
                  \/ env[stg[1]].args[sdim] = var
                  \/ accessed[i].rv /\ var \notin Range(env[stg[1]].args)},
              accessed[i].f,
              IF accessed[i].f \in DOMAIN allocation_bounds
              THEN allocation_bounds[accessed[i].f]
              ELSE pipeline_bounds[accessed[i].f])])
analyze_spatial_locality(stg, allocation_bounds, inlines) ==
    [var \in DimVars(stg[1], stg[2]) |->
        Wrap(total_stride(stg, var,
            Append(call_args(stg[1], stg[2], inlines, FALSE),
                   [f |-> stg[1], n |-> 1, rv |-> FALSE]),
            allocation_bounds))]

\* reorder_dims: the order of the dimensions, innermost first.  Every round
\* takes the first pure dimension of least stride, or the first reduction
\* dimension left if its stride is less.
RECURSIVE reorder_loop(_, _, _, _)
reorder_pick(dims, left, strides, order, pure_ds, impure_ds) ==
    LET min_pure_stride ==
            IF pure_ds = {} THEN IntMax
            ELSE Min(IntMax, CHOOSE m \in {strides[dims[d].var] : d \in pure_ds} :
                                 \A d \in pure_ds : m <= strides[dims[d].var])
        min_pure_var ==
            IF min_pure_stride = IntMax THEN 0
            ELSE CHOOSE d \in pure_ds :
                     /\ strides[dims[d].var] = min_pure_stride
                     /\ \A e \in pure_ds : strides[dims[e].var] = min_pure_stride => d <= e
        first_impure == IF impure_ds = {} THEN 0
                        ELSE CHOOSE d \in impure_ds : \A e \in impure_ds : d <= e
        min_impure_stride ==
            IF first_impure = 0 THEN IntMax ELSE Min(IntMax, strides[dims[first_impure].var])
        curr_min_var == IF min_impure_stride < min_pure_stride THEN first_impure
                        ELSE min_pure_var
    IN IF curr_min_var = 0 THEN order   \* no dimension taken: the loop of the code goes on for ever
       ELSE reorder_loop(dims, left \ {dims[curr_min_var].var}, strides,
                         Append(order, dims[curr_min_var]))
reorder_loop(dims, left, strides, order) ==
    IF left = {} THEN order
    ELSE reorder_pick(dims, left, strides, order,
             {d \in DOMAIN dims : dims[d].var \in left /\ dims[d].pure},
             {d \in DOMAIN dims : dims[d].var \in left /\ ~dims[d].pure})
reorder_dims(stg, dims, strides) == reorder_loop(dims, DOMAIN strides, strides, <<>>)

\* The loops of a stage when its schedule begins to be emitted: the
\* dimensions (innermost first), their estimates, the names that are no pure
\* variable of the function (rvars), and no directive yet.
StageState(stg, est) ==
    [dims |-> schedule_dims(stg), est |-> est,
     rvars |-> {schedule_dims(stg)[d].var : d \in DOMAIN schedule_dims(stg)}
               \ Range(env[stg[1]].args),
     sched |-> <<>>]
DimNames(dims) == [d \in DOMAIN dims |-> dims[d].var]
DimIndex(dims, v) == CHOOSE d \in DOMAIN dims : dims[d].var = v

\* Stage::reorder on every dimension of the stage, in the order 'order'.
reorder_all(stg, ss, order) ==
    [ss EXCEPT !.dims = order,
               !.sched = Append(ss.sched, StageDirective("reorder", stg, DimNames(order), 0))]

\* split_dim: v is split by 'factor'; the inner dimension takes its place
\* and the outer one follows it.
split_dim(stg, ss, v, factor, in_suffix, out_suffix) ==
    LET i == DimIndex(ss.dims, v)
        inner == [ss.dims[i] EXCEPT !.var = v \o in_suffix]
        outer == [ss.dims[i] EXCEPT !.var = v \o out_suffix]
    IN [ss EXCEPT
          !.dims = SubSeq(ss.dims, 1, i - 1) \o <<inner, outer>>
                   \o SubSeq(ss.dims, i + 1, Len(ss.dims)),
          !.est = [n \in (DOMAIN ss.est \ {v}) \cup {inner.var, outer.var} |->
                      IF n = inner.var THEN factor
                      ELSE IF n = outer.var THEN CeilDiv(ss.est[v], factor)
                      ELSE ss.est[n]],
          !.sched = Append(ss.sched,
                       StageDirective("split", stg, <<v, outer.var, inner.var>>, factor))]
\* The reduction variable v replaced by the two it was split into.
split_rvars(rvars, v, in_suffix, out_suffix) ==
    IF v \in rvars THEN (rvars \ {v}) \cup {v \o in_suffix, v \o out_suffix} ELSE rvars

\* vectorize_stage: the first dimension of known estimate that can be
\* vectorized and is no shorter than the vector is split by the length of the
\* vector, and its inner part vectorized.
vectorize_dim(stg, ss, v) ==
    LET split == split_dim(stg, ss, v, vec_len, "_vi", "_vo")
    IN [split EXCEPT
          !.sched = Append(split.sched, StageDirective("vectorize", stg, <<v \o "_vi">>, 0)),
          !.rvars = split_rvars(ss.rvars, v, "_vi", "_vo")]
\* A faulty test: a reduction variable taken for the vector dimension
\* whether or not it can be run in parallel.
can_vectorize_any_rvar(stg, ss, d) ==
    /\ ss.dims[d].var \in DOMAIN ss.est
    /\ ss.est[ss.dims[d].var] # unknown
    /\ ss.est[ss.dims[d].var] >= vec_len
can_vectorize(stg, ss, d) ==
    /\ ss.dims[d].var \in ss.rvars => can_parallelize_rvar(ss.dims[d].var, stg[1], stg[2])
    /\ ss.dims[d].var \in DOMAIN ss.est
    /\ ss.est[ss.dims[d].var] # unknown
    /\ ss.est[ss.dims[d].var] >= vec_len
vectorize_stage(stg, ss) ==
    IF \E d \in DOMAIN ss.dims : can_vectorize(stg, ss, d)
    THEN vectorize_dim(stg, ss,
             ss.dims[CHOOSE d \in DOMAIN ss.dims :
                        /\ can_vectorize(stg, ss, d)
                        /\ \A e \in 1..(d - 1) : ~can_vectorize(stg, ss, e)].var)
    ELSE ss

\* generate_group_cpu_schedule, lines 2181-2213: every dimension of the
\* output with a tile size less than its estimate is split by it, or, with
\* a tile size of one, made an outer dimension as it is.
RECURSIVE tile_dims(_, _, _, _, _, _)
tile_dims(stg, tile_sizes, dim_vars, ss, inner_dims, outer_dims) ==
    IF dim_vars = <<>>
    THEN [ss |-> ss, inner_dims |-> inner_dims, outer_dims |-> outer_dims]
    ELSE LET var == Head(dim_vars)
         IN IF /\ var \in DOMAIN tile_sizes
               /\ ss.est[var] # unknown
               /\ ss.est[var] > tile_sizes[var]
            THEN IF tile_sizes[var] > 1
                 THEN tile_dims(stg, tile_sizes, Tail(dim_vars),
                          [split_dim(stg, ss, var, tile_sizes[var], "_i", "_o")
                              EXCEPT !.rvars = split_rvars(ss.rvars, var, "_i", "_o")],
                          Append(inner_dims, var \o "_i"), Append(outer_dims, var \o "_o"))
                 ELSE tile_dims(stg, tile_sizes, Tail(dim_vars), ss,
                          inner_dims, Append(outer_dims, var))
            ELSE tile_dims(stg, tile_sizes, Tail(dim_vars), ss,
                     Append(inner_dims, var), outer_dims)
\* Lines 2215-2233: the tile dimensions are moved outside the others.
reorder_tiles(stg, tiled) ==
    IF tiled.outer_dims = <<>> THEN tiled
    ELSE [tiled EXCEPT !.ss = reorder_all(stg, tiled.ss,
             [i \in 1..Len(tiled.inner_dims \o tiled.outer_dims) |->
                 tiled.ss.dims[DimIndex(tiled.ss.dims,
                                        (tiled.inner_dims \o tiled.outer_dims)[i])]])]

\* Stage::reorder(seq, v): the two dimensions keep the places they have
\* between them, seq inside v.
reorder_pair(dims, seq, v) ==
    LET i == DimIndex(dims, seq)
        j == DimIndex(dims, v)
    IN [dims EXCEPT ![Min(i, j)] = dims[i], ![Max(i, j)] = dims[j]]

\* Lines 2237-2279: from the outermost loop inwards the dimensions are run
\* in parallel until the parallelism of the machine is reached; a reduction
\* variable that cannot be run in parallel is passed over, and the first of
\* them is moved inside every dimension run in parallel after it.
RECURSIVE parallel_walk(_, _, _, _, _)
parallel_step(stg, ss, d, seq_var, def_par, var) ==
    IF var \in ss.rvars /\ ~can_parallelize_rvar(var, stg[1], stg[2])
    THEN parallel_walk(stg, ss, d - 1, IF seq_var = "" THEN var ELSE seq_var, def_par)
    ELSE IF def_par >= arch_params.parallelism THEN ss
    ELSE IF var \in DOMAIN ss.est /\ ss.est[var] # unknown
    THEN parallel_walk(stg,
             [ss EXCEPT
                !.dims = IF seq_var = "" THEN ss.dims ELSE reorder_pair(ss.dims, seq_var, var),
                !.sched = ss.sched
                    \o (IF seq_var = "" THEN <<>>
                        ELSE <<StageDirective("reorder", stg, <<seq_var, var>>, 0)>>)
                    \o <<StageDirective("parallel", stg, <<var>>, 0)>>],
             d - 1, seq_var, def_par * ss.est[var])
    ELSE ss
parallel_walk(stg, ss, d, seq_var, def_par) ==
    IF d < 1 THEN ss ELSE parallel_step(stg, ss, d, seq_var, def_par, ss.dims[d].var)

\* The schedule of the loops of the output of the group g.
output_tiled(g, storage_bounds, inlines) ==
    LET start == StageState(g.output, bounds_to_estimates(get_bounds(g.output)))
        ordered == reorder_all(g.output, start,
                       reorder_dims(g.output, start.dims,
                           analyze_spatial_locality(g.output, storage_bounds, inlines)))
    IN reorder_tiles(g.output,
           tile_dims(g.output, g.tile_sizes, DimNames(ordered.dims), ordered, <<>>, <<>>))
output_loops(g, tiled) ==
    LET vectorized == vectorize_stage(g.output, tiled.ss)
    IN parallel_walk(g.output, vectorized, Len(vectorized.dims), "", 1)

\* Lines 2285-2292: the loop of the output the members are computed at.
tile_inner_var(tiled, dims) ==
    IF tiled.outer_dims = <<>> THEN ""
    ELSE dims[Len(dims) - Len(tiled.outer_dims) + 1].var

\* Lines 2294-2351: every member that is neither inlined nor a stage of the
\* output's function is computed at the tiles of the output, or at root if
\* there are none, and its loops are ordered and vectorized.
member_loops(mem, loop_bounds, storage_bounds, inlines) ==
    LET start == StageState(mem, bounds_to_estimates(loop_bounds[mem]))
        ordered == reorder_all(mem, start,
                       reorder_dims(mem, start.dims,
                           analyze_spatial_locality(mem, storage_bounds, inlines)))
    IN vectorize_stage(mem, ordered).sched
RECURSIVE member_directives(_, _, _, _, _, _)
member_directives(g, mems, at_var, loop_bounds, storage_bounds, inlines) ==
    IF mems = <<>> THEN <<>>
    ELSE LET mem == Head(mems)
             rest == member_directives(g, Tail(mems), at_var, loop_bounds,
                                       storage_bounds, inlines)
         IN IF mem[1] \in g.inlined \/ mem[1] = g.output[1] THEN rest
            ELSE (IF mem[2] > 0 THEN <<>>
                  ELSE IF at_var # ""
                  THEN <<[Directive("compute_at", mem[1], g.output[1]) EXCEPT !.dims = <<at_var>>]>>
                  ELSE <<Directive("compute_root", mem[1], 0)>>)
                 \o member_loops(mem, loop_bounds, storage_bounds, inlines)
                 \o rest

\* Partitioner::generate_group_cpu_schedule.
group_schedule(g, tiled, loops, loop_bounds, storage_bounds, inlines) ==
    tiled.ss.sched
    \o SubSeq(loops.sched, Len(tiled.ss.sched) + 1, Len(loops.sched))
    \o member_directives(g, g.members, tile_inner_var(tiled, loops.dims),
                         loop_bounds, storage_bounds, inlines)
generate_group_cpu_schedule(g, loop_bounds, storage_bounds, inlines) ==
    (IF g.output[2] > 0 THEN <<>> ELSE <<Directive("compute_root", g.output[1], 0)>>)
    \o (IF env[g.output[1]].extern THEN <<>>
        ELSE \* one value of the tiled loops, used by the steps after it
             LET T == {output_tiled(g, storage_bounds, inlines)}
             IN CHOOSE ds \in {group_schedule(g, tiled, output_loops(g, tiled),
                                   loop_bounds, storage_bounds, inlines) : tiled \in T} : TRUE)

\* Partitioner::generate_cpu_schedule: the inlined functions of every group,
\* then the schedule of every group.
RECURSIVE inline_directives(_)
inline_directives(keys) ==
    IF keys = <<>> THEN <<>>
    ELSE LET inl == SortedInts(groups[Head(keys)].inlined)
         IN [i \in DOMAIN inl |-> Directive("compute_inline", inl[i], 0)]
            \o inline_directives(Tail(keys))
RECURSIVE group_directives(_, _)
group_directives(keys, inlines) ==
    IF keys = <<>> THEN <<>>
    ELSE generate_group_cpu_schedule(groups[Head(keys)],
             group_loop_bounds(groups[Head(keys)]),
             group_storage_bounds(groups[Head(keys)]), inlines)
         \o group_directives(Tail(keys), inlines)
generate_cpu_schedule ==
    inline_directives(SortedStages(DOMAIN groups))
    \o group_directives(SortedStages(DOMAIN groups),
                        UNION {groups[k].inlined : k \in DOMAIN groups})

\* The levels a directive leaves on the function it is applied to.
RECURSIVE apply_directives(_, _)
apply_directives(ds, sch) ==
    IF ds = <<>> THEN sch
    ELSE LET d == Head(ds)
         IN IF d.op \notin {"compute_inline", "compute_root", "compute_at"}
            THEN apply_directives(Tail(ds), sch)
            ELSE apply_directives(Tail(ds),
                     [sch EXCEPT ![<<d.func, 0>>] =
                         LoopLevel(IF d.op = "compute_inline" THEN "inlined"
                                   ELSE IF d.op = "compute_root" THEN "root"
                                   ELSE <<"at", d.at>>)])

\* The assertions of the emission hold: a group whose output has an extern
\* definition has one member (line 2150), and no member that
\* analyze_spatial_locality is called on has one (line 2469).
emission_asserts ==
    \A k \in DOMAIN groups :
        IF env[groups[k].output[1]].extern THEN Len(groups[k].members) = 1
        ELSE \A mem \in Range(groups[k].members) :
                 env[mem[1]].extern => mem[1] \in groups[k].inlined

\* generate_schedules, line 2715: sched = part.generate_cpu_schedule(target)
Emit ==
    /\ pc = "grouped"
    /\ sched' = IF emission_asserts THEN generate_cpu_schedule ELSE sched
    /\ schedule' = apply_directives(sched', schedule)
    /\ pc' = IF emission_asserts THEN "done" ELSE "internal_error"
    /\ UNCHANGED <<env, outputs, pipeline_bounds, groups, children,
                   group_costs, grouping_cache, last, arch_params>>

Next ==
    \/ Validate
    \/ MissingEstimates
    \/ Construct
    \/ InitializeGroups
    \/ \E level \in Levels : GroupMerge(level)
    \/ \E level \in Levels : GroupFixpoint(level)
    \/ ClearCache
    \/ Emit

Spec == Init /\ [][Next]_vars

(***************************************************************************)
(* Properties.                                                             *)
(***************************************************************************)
\* C1: monotone cost.  The assertion that closes an iteration of
\* Partitioner::group never fails, and after a merge, of either pass, the sum
\* over all groups of the arithmetic and the memory cost is at most what it
\* was before the merge.
C1_MonotoneCost ==
    LET total(costs) ==
            SumSeq([i \in 1..Cardinality(DOMAIN costs) |->
                LET k == SetToSeq(DOMAIN costs)[i]
                IN costs[k].cost.arith + costs[k].cost.memory])
    IN /\ pc # "internal_error"
       /\ last.merged => total(group_costs) <= total(last.pre_costs)

\* A merge made while the cost of some other group is unknown.
C1_Witness ==
    /\ last.merged
    /\ pc = last.level
    /\ \E k \in DOMAIN group_costs : group_costs[k].cost.arith = unknown

C3_MissingEstimateFallback ==
    (\E i \in DOMAIN outputs :
        \E v \in Range(env[outputs[i]].args) :
            ~\E e \in DOMAIN env[outputs[i]].estimates :
                /\ env[outputs[i]].estimates[e].var = v
                /\ env[outputs[i]].estimates[e].int)
    => /\ pc \in {"start", "validated", "user_error", "done"}
       /\ groups = <<>>
       /\ grouping_cache = <<>>
       /\ sched = <<>>
       /\ pc = "done" => \A st \in AllStages : schedule[st] = LoopLevel("root")

\* C4: cache consistency.  After a merge of a producer the grouping cache
\* holds no entry whose consumer is a child of the final stage of the
\* producer, and none whose producer is the function of such a child.
C4_CacheConsistency ==
    last.merged =>
        \A k \in DOMAIN grouping_cache :
            \A c \in last.prod_group_children : k.cons # c /\ k.prod # c[1]

\* A merge before which the cache held an entry of either kind.
C4_Witness ==
    /\ last.merged
    /\ \E k \in DOMAIN last.pre_cache :
         \E c \in last.prod_group_children : k.cons = c
    /\ \E k \in DOMAIN last.pre_cache :
         \E c \in last.prod_group_children : k.prod = c[1]

\* C5: the parallelism floor.  Every choice of a merge has an analysis whose
\* parallelism is at least that of the machine; a candidate with a choice
\* whose parallelism is below it has an unknown benefit and is not merged.
C5_ParallelismFloor ==
    /\ last.merged =>
         \A i \in DOMAIN last.best :
             last.best[i][2].analysis.parallelism >= arch_params.parallelism
    /\ \A i \in DOMAIN last.benefits :
         (\E j \in DOMAIN last.benefits[i].choices :
             last.benefits[i].choices[j][2].analysis.parallelism
                 < arch_params.parallelism)
         => /\ last.benefits[i].benefit = unknown
            /\ ~(last.merged /\ last.prod = last.benefits[i].prod)

\* A candidate whose costs are known and whose parallelism is too low.
C5_Witness ==
    \E i \in DOMAIN last.benefits :
        \E j \in DOMAIN last.benefits[i].choices :
            LET a == last.benefits[i].choices[j][2].analysis
            IN a.cost.arith # unknown /\ a.parallelism < arch_params.parallelism

\* C6: unknown means do not merge.  A candidate has an unknown benefit when the
\* analysis of one of its choices, or the cost stored before the merge for a
\* stage of the producer or for a child, is unknown; and a candidate with an
\* unknown benefit is not merged.
C6_UnknownNeverMerged ==
    \A i \in DOMAIN last.benefits :
        LET b == last.benefits[i]
            olds == StagesOf(b.prod) \cup {b.choices[j][1].cons : j \in DOMAIN b.choices}
        IN /\ ((\E j \in DOMAIN b.choices :
                    b.choices[j][2].analysis.cost.arith = unknown)
               \/ (\E st \in olds : last.pre_costs[st].cost.arith = unknown))
              => b.benefit = unknown
           /\ b.benefit = unknown => ~(last.merged /\ last.prod = b.prod)

\* An iteration that merges one candidate while the analysis of a choice of
\* another, whose parallelism would do, is unknown.
C6_Witness ==
    /\ last.merged
    /\ \E i \in DOMAIN last.benefits :
         /\ last.benefits[i].prod # last.prod
         /\ \E j \in DOMAIN last.benefits[i].choices :
              last.benefits[i].choices[j][2].analysis.cost.arith = unknown

\* C7: merge eligibility.  The producer of a merge is no output, and the group
\* of its final stage was there before the merge; the choices merged are those
\* of that producer with the children of its final stage; at level FAST_MEM
\* those children are stages of one function, and at level INLINE the producer
\* has no update definition.
C7_MergeEligibility ==
    last.merged =>
        LET final_stage == <<last.prod, env[last.prod].updates>>
        IN /\ \A i \in DOMAIN outputs : outputs[i] # last.prod
           /\ final_stage \in DOMAIN last.pre_groups
           /\ last.prod_group_children = last.pre_children[final_stage]
           /\ {last.best[i][1] : i \in DOMAIN last.best}
                = {GroupingChoice(last.prod, c) : c \in last.prod_group_children}
           /\ last.level = "FAST_MEM"
                => Cardinality(Names(last.prod_group_children)) = 1
           /\ last.level = "INLINE" => env[last.prod].updates = 0

\* A merge, at level FAST_MEM, of a producer with an update definition.
C7_Witness ==
    last.merged /\ last.level = "FAST_MEM" /\ env[last.prod].updates > 0

C9_MergeEffectOnGraph ==
    last.merged =>
        LET Sp == StagesOf(last.prod)
            C == last.prod_group_children
            prev == last.pre_children
        IN /\ Sp \cap DOMAIN groups = {}
           /\ Sp \cap DOMAIN group_costs = {}
           /\ Sp \cap DOMAIN children = {}
           /\ DOMAIN children = (DOMAIN prev) \ Sp
           /\ DOMAIN groups = (DOMAIN last.pre_groups) \ Sp
           /\ \A k \in DOMAIN children :
                /\ children[k] \cap Sp = {}
                /\ prev[k] \cap Sp # {} => children[k] = (prev[k] \ Sp) \cup C
                /\ prev[k] \cap Sp = {} => children[k] = prev[k]

\* A merge of a producer that has a producer of its own.
C9_Witness ==
    /\ last.merged
    /\ \E k \in DOMAIN children :
         last.pre_children[k] \cap StagesOf(last.prod) # {}

\* C10: the invariant I3 of a group.  Every name in 'inlined' is the name of
\* the function of a member of the group, and not that of its output.
C10_InlinedMembers ==
    \A k \in DOMAIN groups :
        groups[k].inlined
            \subseteq Names(Range(groups[k].members)) \ {groups[k].output[1]}

\* A group with an inlined member.
C10_Witness ==
    \E k \in DOMAIN groups : groups[k].inlined # {}

\* C11, as stated: in every state the keys of the tile sizes of every group
\* are pure variables of its output stage; no reduction variable is a key.
C11_TileSizeKeys ==
    \A k \in DOMAIN groups :
        DOMAIN groups[k].tile_sizes \subseteq Range(env[groups[k].output[1]].args)

\* C11, amended: the keys of the tile sizes of every group are loop
\* dimensions of its output stage; a reduction variable among them has the
\* size 1 (set by a merge at level INLINE, which gives every dimension of the
\* consumer the size 1), and the tile sizes a merge at level FAST_MEM sets
\* have pure variables as keys only.
C11_TileSizeKeysOfDims ==
    /\ \A k \in DOMAIN groups :
          LET out == groups[k].output
              t == groups[k].tile_sizes
          IN /\ DOMAIN t \subseteq DimVars(out[1], out[2])
             /\ \A v \in DOMAIN t : v \notin Range(env[out[1]].args) => t[v] = 1
    /\ (last.merged /\ last.level = "FAST_MEM" /\ pc = "FAST_MEM") =>
          \A c \in last.prod_group_children :
              DOMAIN groups[c].tile_sizes \subseteq Range(env[c[1]].args)

\* A group, after a merge at level INLINE into an update stage, whose tile
\* sizes have a reduction variable as key.
C11_Witness ==
    /\ last.merged /\ last.level = "INLINE"
    /\ \E c \in last.prod_group_children :
         /\ c \in DOMAIN groups
         /\ \E v \in DOMAIN groups[c].tile_sizes : v \notin Range(env[c[1]].args)

\* The dimension of the definition of stg that 'v' was split from, by the
\* splits emitted.
RECURSIVE split_base(_, _, _)
split_base(stg, v, ds) ==
    IF ds = <<>> THEN v
    ELSE LET d == ds[Len(ds)]
         IN IF /\ d.op = "split" /\ <<d.func, d.at>> = stg
               /\ v \in {d.dims[2], d.dims[3]}
            THEN split_base(stg, d.dims[1], SubSeq(ds, 1, Len(ds) - 1))
            ELSE split_base(stg, v, SubSeq(ds, 1, Len(ds) - 1))
\* A reduction dimension of stg that can_parallelize_rvar does not allow to
\* be run in parallel.
serial_rvar(stg, v) ==
    /\ v \in DimVars(stg[1], stg[2]) \ Range(env[stg[1]].args)
    /\ ~can_parallelize_rvar(v, stg[1], stg[2])

\* C12: no parallel or vectorize directive is emitted on a reduction
\* dimension that cannot be run in parallel, nor on a part it was split
\* into; and the dimension the parallelize walk moves inside a dimension it
\* runs in parallel is such a reduction dimension, which it passed over.
C12_SerialReductionLegality ==
    \A i \in DOMAIN sched :
        LET d == sched[i]
            stg == <<d.func, d.at>>
        IN /\ d.op \in {"parallel", "vectorize"} =>
                ~serial_rvar(stg, split_base(stg, d.dims[1], SubSeq(sched, 1, i - 1)))
           /\ (d.op = "reorder" /\ i < Len(sched) /\ sched[i + 1].op = "parallel"
                 /\ Len(d.dims) = 2 /\ d.dims[2] = sched[i + 1].dims[1]) =>
                serial_rvar(stg, d.dims[1])
\* A schedule was emitted for a stage with a reduction dimension that cannot
\* be run in parallel: the stage was vectorized, and the walk passed the
\* reduction dimension over and ran a dimension inside it in parallel.
C12_Witness ==
    /\ pc = "done"
    /\ \E stg \in AllStages : \E r \in DimVars(stg[1], stg[2]) :
         /\ serial_rvar(stg, r)
         /\ \E i \in DOMAIN sched :
              sched[i].op = "vectorize" /\ <<sched[i].func, sched[i].at>> = stg
         /\ \E i \in 1..(Len(sched) - 1) :
              /\ sched[i].op = "reorder" /\ <<sched[i].func, sched[i].at>> = stg
              /\ Len(sched[i].dims) = 2 /\ sched[i].dims[1] = r
              /\ sched[i + 1].op = "parallel"
              /\ sched[i + 1].dims[1] = sched[i].dims[2]

\* The usage errors of C13 in the schedule of f: a split, a bound, a loop
\* that is not serial on any function; a specialization or an order of the
\* loops of a stage other than the declared one, on the functions of
\* 'ordered'.
usage_error(f, ordered) ==
    \/ env[f].splits
    \/ env[f].bounds
    \/ env[f].non_serial
    \/ /\ f \in ordered
       /\ \/ env[f].specializations /\ ~env[f].extern
          \/ \E s \in 0..env[f].updates :
                env[f].dims[s + 1] #
                    (IF s = 0 THEN <<>>
                     ELSE [i \in DOMAIN env[f].rvars[s] |-> env[f].rvars[s][i].var])
                    \o env[f].args
\* Nothing has been done to any schedule, and nothing decided from the
\* estimates.
untouched ==
    /\ schedule = [st \in AllStages |-> LoopLevel("inlined")]
    /\ sched = <<>>
    /\ pipeline_bounds = <<>>
    /\ groups = <<>>

\* C13, as stated: if any function has a split, a bound, a loop that is not
\* serial, a specialization on its pure definition (unless it is extern), or
\* the loops of a stage in an order other than the declared one, the run
\* ends with a user error before the estimates are checked and before any
\* schedule is modified.
C13_UsageErrorsAbortFirst ==
    (pc # "start" /\ \E f \in Funcs : usage_error(f, Funcs))
        => pc = "user_error" /\ untouched
\* C13, amended: the order of the loops, like a specialization, is a usage
\* error only on a function that has no extern definition.
C13_UsageErrorsOfNonExternAbortFirst ==
    (pc # "start" /\ \E f \in Funcs : usage_error(f, {g \in Funcs : ~env[g].extern}))
        => pc = "user_error" /\ untouched
\* The run has ended with a user error on the order of the loops of an
\* update definition.
C13_Witness ==
    /\ pc = "user_error"
    /\ \E f \in Funcs :
         /\ ~env[f].extern /\ env[f].updates > 0
         /\ ~env[f].splits /\ ~env[f].bounds /\ ~env[f].non_serial
         /\ ~env[f].specializations
         /\ usage_error(f, Funcs)

QueryIntervals == {Interval(0, 7), Interval(0, 2047), Everything}
\* The interval b2 contains the interval b.
interval_contains(b2, b) ==
    ~b2.bounded \/ (b.bounded /\ b2.min <= b.min /\ b.max <= b2.max)
\* The regions for the bounds b2 hold every key of those for b, with a box
\* that contains the box for b in every dimension but those in 'but'.
regions_contain(r2, r, but) ==
    /\ DOMAIN r \subseteq DOMAIN r2
    /\ \A g \in DOMAIN r : \A d \in DOMAIN r[g] :
          <<g, d>> \notin but => interval_contains(r2[g][d], r[g][d])
\* The dimensions in which the box of 'traversed' had an end that is no
\* integer constant, which the function's estimate replaced in 'regions'.
estimated_dims(traversed, regions) ==
    {gd \in UNION {{<<g, d>> : d \in DOMAIN regions[g]} : g \in DOMAIN regions} :
        traversed[gd[1]][gd[2]] # regions[gd[1]][gd[2]]}
traversed_regions(stg, bounds, prods, only_regions_computed) ==
    traverse_regions(<<[stage |-> stg, bounds |-> bounds]>>, <<>>, prods,
                     only_regions_computed)

\* C15, as stated: if bounds2 contains bounds in every loop dimension, every
\* key of regions_required for bounds is a key of the result for bounds2,
\* and its box there contains the box for bounds in every dimension.
C15_RegionMonotonicity ==
    pc = "constructed" =>
        \A stg \in AllStages :
        \A b, b2 \in [DimVars(stg[1], stg[2]) -> QueryIntervals] :
        \A prods \in {Funcs, {stg[1]}} : \A only_regions_computed \in BOOLEAN :
            (\A v \in DOMAIN b : interval_contains(b2[v], b[v])) =>
                regions_contain(
                    regions_required(stg[1], stg[2], b2, prods, only_regions_computed),
                    regions_required(stg[1], stg[2], b, prods, only_regions_computed),
                    {})
\* C15, amended: ... in every dimension but those where, for bounds2, an end
\* that is no integer constant was replaced by the estimate of the function;
\* and before that replacement, in every dimension.
C15_RegionMonotonicityBeforeEstimates ==
    pc = "constructed" =>
        \A stg \in AllStages :
        \A b, b2 \in [DimVars(stg[1], stg[2]) -> QueryIntervals] :
        \A prods \in {Funcs, {stg[1]}} : \A only_regions_computed \in BOOLEAN :
            (\A v \in DOMAIN b : interval_contains(b2[v], b[v])) =>
                /\ regions_contain(
                       traversed_regions(stg, b2, prods, only_regions_computed),
                       traversed_regions(stg, b, prods, only_regions_computed), {})
                /\ regions_contain(
                       regions_required(stg[1], stg[2], b2, prods, only_regions_computed),
                       regions_required(stg[1], stg[2], b, prods, only_regions_computed),
                       estimated_dims(
                           traversed_regions(stg, b2, prods, only_regions_computed),
                           regions_required(stg[1], stg[2], b2, prods,
                                            only_regions_computed)))
\* A query of the regions of a stencil for a tile and for wider bounds, the
\* box of the producer for the wider strictly containing that for the tile.
C15_Witness ==
    /\ pc = "constructed"
    /\ \E stg \in AllStages : \E g \in Funcs \ {stg[1]} :
         LET b == [v \in DimVars(stg[1], stg[2]) |-> Interval(0, 7)]
             b2 == [v \in DimVars(stg[1], stg[2]) |-> Interval(0, 2047)]
             r == regions_required(stg[1], stg[2], b, Funcs, FALSE)
             r2 == regions_required(stg[1], stg[2], b2, Funcs, FALSE)
         IN /\ g \in DOMAIN r /\ g \in DOMAIN r2
            /\ r[g][1] = Interval(0, 9) /\ r2[g][1] = Interval(0, 2049)

\* C16: after initialize_groups and after every merge, groups and
\* group_costs have the same keys, and every stage of the children relation,
\* a key or a child, is a key of groups; so the stages of a candidate
\* producer and the children of its final stage are keys of both maps.
C16_KeyValidity ==
    pc \in {"INLINE", "inlined", "FAST_MEM", "grouped"} =>
        /\ DOMAIN groups = DOMAIN group_costs
        /\ DOMAIN children \subseteq DOMAIN groups
        /\ \A k \in DOMAIN children : children[k] \subseteq DOMAIN groups
        /\ \A k \in DOMAIN groups :
              /\ StagesOf(k[1]) \subseteq DOMAIN groups
              /\ is_candidate_group(k) =>
                    children[<<k[1], env[k[1]].updates>>] \subseteq DOMAIN group_costs
\* A merge of a producer with an update definition has taken place, and a
\* stage that called a parent of it is still a child in the relation.
C16_Witness ==
    /\ pc \in Levels
    /\ last.merged
    /\ num_stages(last.prod) > 1
    /\ DOMAIN groups # AllStages
    /\ children # <<>>

\* The tile sizes get_bounds_from_tile_sizes is queried with: for every set
\* of loop dimensions of the stage, a size for each.
QueryTileSizes(stg) ==
    UNION {[S -> {1, 5, 64, 600}] : S \in SUBSET DimVars(stg[1], stg[2])}
\* The extent the pipeline bounds and the reduction domain give stage stg
\* along v: unknown where they give no integer constant.
estimated_extent(stg, v) ==
    LET f == stg[1]
        bound == IF v \in Range(env[f].args)
                 THEN pipeline_bounds[f][CHOOSE d \in DOMAIN env[f].args :
                                            env[f].args[d] = v]
                 ELSE get_stage_bounds(f, stg[2], <<>>)[v]
    IN IF bound.bounded THEN bound.max - bound.min + 1 ELSE unknown

\* C17: get_bounds_from_tile_sizes returns a map whose keys are the loop
\* dimensions of the stage but the outermost, a dimension v mapped to
\* [0, t - 1] if tile_sizes holds the size t for v and the estimated extent
\* along v is at least 2 * t, to the full estimated bound otherwise.
C17_TileLoopBounds ==
    pc \in {"constructed", "INLINE", "FAST_MEM", "grouped"} =>
        \A stg \in AllStages : \A tile_sizes \in QueryTileSizes(stg) :
            LET bounds == get_bounds_from_tile_sizes(stg, tile_sizes)
            IN /\ DOMAIN bounds = {env[stg[1]].dims[stg[2] + 1][d] :
                                      d \in DOMAIN env[stg[1]].dims[stg[2] + 1]}
               /\ \A v \in DOMAIN bounds :
                     bounds[v] =
                        IF /\ v \in DOMAIN tile_sizes
                           /\ estimated_extent(stg, v) # unknown
                           /\ estimated_extent(stg, v) >= 2 * tile_sizes[v]
                        THEN Interval(0, tile_sizes[v] - 1)
                        ELSE get_bounds(stg)[v]
\* A dimension of extent 1024 that the size 64 tiles and the size 600, of
\* which it holds a single tile, does not.
C17_Witness ==
    /\ pc = "FAST_MEM"
    /\ \E stg \in AllStages : \E v \in DimVars(stg[1], stg[2]) :
          /\ estimated_extent(stg, v) = 1024
          /\ get_bounds_from_tile_sizes(stg, [x \in {v} |-> 64])[v] = Interval(0, 63)
          /\ get_bounds_from_tile_sizes(stg, [x \in {v} |-> 600])[v] = Interval(0, 1023)

\* What analyze_group computes for the group g on its way to the cost: the
\* bounds of one tile, the regions allocated for it, the extent of the tile
\* of the output and the loads of one tile from every function.
tile_analysis(g) ==
    LET tile_bounds == get_bounds_from_tile_sizes(g.output, g.tile_sizes)
        members == Names(Range(g.members))
    IN [alloc_regions |->
            regions_required(g.output[1], g.output[2], tile_bounds, members, FALSE),
        out_tile_extent |->
            IF g.output[2] = 0
            THEN [d \in 1..(Len(env[g.output[1]].args) - 1) |->
                     tile_bounds[env[g.output[1]].args[d]]]
            ELSE <<>>,
        loads |->
            combine_load_costs(
                detailed_load_costs(
                    group_regions(g, regions_required(g.output[1], g.output[2],
                                                      tile_bounds, members, TRUE)),
                    g.inlined),
                stage_detailed_load_costs(g.output[1], g.output[2], tile_bounds,
                                          g.inlined)),
        tiles |-> count_tiles(g, 1, 1, 1).tiles]
\* The memory cost of g from the analysis a and the footprints fp.
memory_cost(a, fp) ==
    LET fs == SortedInts(DOMAIN a.loads)
    IN a.tiles * SumSeq([i \in DOMAIN fs |-> cost_factor(fp[fs[i]]) * a.loads[fs[i]]])
\* The footprints of the loads as C18 states them: the extent of the tile
\* for the output, the region allocated for one tile for every other function.
tile_footprints(g, a) ==
    [f \in DOMAIN a.loads |->
        IF f = g.output[1] THEN region_size(f, a.out_tile_extent)
        ELSE region_size(f, a.alloc_regions[f])]
\* The footprints with the reuse model off: the region allocated for one
\* tile for a member that is not the output, the region of the function in
\* the whole pipeline for the output, an input and a function of another group.
pipeline_footprints(g, a) ==
    [f \in DOMAIN a.loads |->
        IF f # g.output[1] /\ f \in Names(Range(g.members))
        THEN region_size(f, a.alloc_regions[f])
        ELSE region_size(f, pipeline_bounds[f])]
\* The footprints f is charged with determine the memory cost of the
\* group of key k, where that cost is known.
charged_with(k, footprints(_, _)) ==
    LET g == groups[k]
        a == tile_analysis(g)
    IN group_costs[k].cost.memory # unknown =>
          /\ \A f \in DOMAIN a.loads :
                load_footprint(g, f, a.alloc_regions, a.out_tile_extent)
                    = footprints(g, a)[f]
          /\ group_costs[k].cost.memory = memory_cost(a, footprints(g, a))

\* C18, as stated: with the reuse model off the footprint of a load is the
\* extent of the tile for the output of the group, and the region allocated
\* for one tile for an input, a function of another group and a member.
C18_FootprintOfTile ==
    pc \in {"INLINE", "FAST_MEM", "grouped"} =>
        \A k \in DOMAIN groups : charged_with(k, tile_footprints)
\* C18, amended: with the reuse model off the footprint of a load is the
\* region of the function in the whole pipeline for the output of the
\* group, an input and a function of another group, and the region
\* allocated for one tile for a member that is not the output.
C18_FootprintOfPipeline ==
    pc \in {"INLINE", "FAST_MEM", "grouped"} =>
        \A k \in DOMAIN groups : charged_with(k, pipeline_footprints)
\* A tiled group with a member, whose loads from a function of another group
\* or from its own output are charged with a footprint larger than the tile's.
C18_Witness ==
    /\ pc \in {"FAST_MEM", "grouped"}
    /\ \E k \in DOMAIN groups :
          LET g == groups[k]
              a == tile_analysis(g)
          IN /\ group_costs[k].cost.memory # unknown
             /\ g.tile_sizes # <<>>
             /\ Len(g.members) > 1
             /\ \E f \in DOMAIN a.loads :
                   /\ f \in Names(Range(g.members)) /\ f # g.output[1]
             /\ \E f \in DOMAIN a.loads :
                   /\ f \notin Names(Range(g.members)) \/ f = g.output[1]
                   /\ pipeline_footprints(g, a)[f] > tile_footprints(g, a)[f]
                   /\ cost_factor(pipeline_footprints(g, a)[f])
                        > cost_factor(tile_footprints(g, a)[f])

\* The pure loop variables of stg in the order of its loops: the axes.
tile_axes(stg) ==
    LET dims == env[stg[1]].dims[stg[2] + 1]
    IN SelectSeq(dims, LAMBDA v : v \in Range(env[stg[1]].args))
\* The configurations C19 lists for the axes, duplicates and empty maps
\* among them: the skewed ones, the square-ish ones, one per set of axes.
listed_configs(axes) ==
    LET n == Len(axes)
        sv == <<1, 4, 8, 16, 32, 64, 128, 256>>
        at_least_64(s) == IF s < 64 THEN 64 ELSE s
        skewed(i, s) ==
            [v \in Range(axes) |->
                LET j == CHOOSE j \in 1..n : axes[j] = v
                IN IF j = i THEN (IF i = 1 THEN at_least_64(s) ELSE s)
                   ELSE IF j < i THEN 256 ELSE 1]
        square(s) ==
            [v \in Range(axes) |-> IF v = axes[1] THEN at_least_64(s) ELSE s]
        subset(m) ==
            [v \in {axes[j] : j \in {j \in 1..n : (m \div 2^(j - 1)) % 2 = 1}} |->
                IF v = axes[1] THEN 64 ELSE 1]
    IN [x \in 1..(8 * n) |-> skewed(((x - 1) \div 8) + 1, sv[((x - 1) % 8) + 1])]
       \o [k \in 1..8 |-> square(sv[k])]
       \o [m \in 1..(2^n - 1) |-> subset(m)]
\* The sequence without its empty maps and without every map that is equal
\* to an earlier one.
first_occurrences(seq) ==
    SelectSeq([x \in DOMAIN seq |->
                  [map |-> seq[x],
                   keep |-> /\ DOMAIN seq[x] # {}
                            /\ \A y \in 1..(x - 1) : seq[y] # seq[x]]],
              LAMBDA e : e.keep)

\* C19: generate_tile_configs returns, in this order, the skewed, the
\* square-ish and the per-subset configurations over the pure loop variables
\* of the stage, every later duplicate removed: no two maps are equal, no map
\* is empty, and the first axis has a size of at least 64 where it is a key.
C19_TileEnumeratorOutput ==
    pc = "constructed" =>
        \A stg \in AllStages :
            LET configs == generate_tile_configs(stg)
                listed == first_occurrences(listed_configs(tile_axes(stg)))
            IN /\ Len(configs) = Len(listed)
               /\ \A x \in DOMAIN configs :
                     /\ configs[x] = listed[x].map
                     /\ DOMAIN configs[x] # {}
                     /\ DOMAIN configs[x] \subseteq Range(env[stg[1]].args)
                     /\ \A y \in DOMAIN configs : configs[y] = configs[x] => y = x
                     /\ tile_axes(stg)[1] \in DOMAIN configs[x] =>
                           configs[x][tile_axes(stg)[1]] >= 64
\* An update stage with two pure loop variables and a reduction variable:
\* duplicates among the listed configurations are left out.
C19_Witness ==
    /\ pc = "constructed"
    /\ \E stg \in AllStages :
          /\ stg[2] > 0
          /\ Len(tile_axes(stg)) = 2
          /\ Len(env[stg[1]].dims[stg[2] + 1]) > 2
          /\ Len(generate_tile_configs(stg)) < Len(listed_configs(tile_axes(stg)))
          /\ Len(generate_tile_configs(stg)) > 8

\* The sum of the arithmetic and the memory cost of an analysis.
total_cost(analysis) == analysis.cost.arith + analysis.cost.memory
\* The candidates of known cost that keep arch_params.parallelism.
eligible(analyses) ==
    {x \in DOMAIN analyses :
        /\ analyses[x].cost.arith # unknown /\ analyses[x].cost.memory # unknown
        /\ analyses[x].parallelism >= arch_params.parallelism}
\* The configuration C20 describes, from the analysis without tiles, the
\* candidates in the order of their enumeration and their analyses.
described_best(no_tile, configs, analyses) ==
    LET better == {x \in eligible(analyses) :
                      total_cost(analyses[x]) < total_cost(no_tile)}
        least == {x \in eligible(analyses) :
                     \A y \in eligible(analyses) :
                         total_cost(analyses[x]) <= total_cost(analyses[y])}
        earliest == CHOOSE x \in least : \A y \in least : x <= y
    IN IF no_tile.cost.arith = unknown \/ better = {}
       THEN [tile_sizes |-> <<>>, analysis |-> no_tile]
       ELSE [tile_sizes |-> configs[earliest], analysis |-> analyses[earliest]]
candidate_analyses(g, configs) ==
    [x \in DOMAIN configs |-> analyze_group([g EXCEPT !.tile_sizes = configs[x]])]
described_best_of(g, configs) ==
    described_best(analyze_group([g EXCEPT !.tile_sizes = <<>>]), configs,
                   candidate_analyses(g, configs))

\* The groups find_best_tile_config is called with: every group, by
\* initialize_groups, and at level FAST_MEM every group that the merge of a
\* producer into a child of its final stage would make, by evaluate_choice.
groups_to_tile ==
    {groups[k] : k \in DOMAIN groups}
    \cup {merge_prod_groups(c[1][1], 0, groups[c[2]]) :
             c \in {c \in (DOMAIN children) \X (DOMAIN groups) :
                       /\ pc = "FAST_MEM"
                       /\ is_candidate_group(c[1])
                       /\ c[2] \in children[c[1]]}}

\* C20: find_best_tile_config returns no tiles, with their analysis, if
\* that analysis is unknown or no candidate of known cost and of parallelism
\* at least arch_params.parallelism costs strictly less; otherwise the
\* earliest candidate of the least cost among those of that parallelism.
C20_BestTileConfiguration ==
    pc \in {"constructed", "FAST_MEM"} =>
        \A g \in groups_to_tile :
            find_best_tile_config(g)
                = described_best_of(g, generate_tile_configs(g.output))
\* At level FAST_MEM, a group tiled with the earliest candidate of the least
\* cost although a later one costs less than no tiles too, and a group left
\* without tiles although a candidate costs as little.
C20_Witness ==
    /\ pc = "FAST_MEM"
    /\ \E g \in groups_to_tile :
          \E c \in {generate_tile_configs(g.output)} :
          \E a \in {candidate_analyses(g, c)} :
          \E x, y \in eligible(a) :
             /\ x < y
             /\ c[x] = find_best_tile_config(g).tile_sizes
             /\ total_cost(a[y]) > total_cost(a[x])
             /\ total_cost(a[y]) < total_cost(analyze_group([g EXCEPT !.tile_sizes = <<>>]))
    /\ \E k \in DOMAIN groups :
          /\ groups[k].tile_sizes = <<>>
          /\ group_costs[k].cost.arith # unknown
          /\ \E a \in {candidate_analyses(groups[k],
                                           generate_tile_configs(groups[k].output))} :
             \E x \in eligible(a) : total_cost(a[x]) = total_cost(group_costs[k])

\* C21, as stated: for a stage without extern definition, the regions
\* computed (the flag true) have no entry for the function queried, the
\* regions allocated (the flag false) have one, and the box of every other
\* function computed is contained, in every dimension, in the box allocated.
C21_ComputedWithinAllocated ==
    pc = "constructed" =>
        \A stg \in {st \in AllStages : ~env[st[1]].extern} :
        \A b \in [DimVars(stg[1], stg[2]) -> QueryIntervals] :
        \A prods \in {Funcs, {stg[1]}} :
            /\ stg[1] \notin DOMAIN regions_required(stg[1], stg[2], b, prods, TRUE)
            /\ stg[1] \in DOMAIN regions_required(stg[1], stg[2], b, prods, FALSE)
            /\ regions_contain(regions_required(stg[1], stg[2], b, prods, FALSE),
                               regions_required(stg[1], stg[2], b, prods, TRUE), {})
\* C21, amended: ... in every dimension but those where, in the regions
\* allocated, an end that is no integer constant was replaced by the
\* estimate of the function; and before that replacement in every dimension.
C21_ComputedWithinAllocatedBeforeEstimates ==
    pc = "constructed" =>
        \A stg \in {st \in AllStages : ~env[st[1]].extern} :
        \A b \in [DimVars(stg[1], stg[2]) -> QueryIntervals] :
        \A prods \in {Funcs, {stg[1]}} :
            /\ stg[1] \notin DOMAIN regions_required(stg[1], stg[2], b, prods, TRUE)
            /\ stg[1] \in DOMAIN regions_required(stg[1], stg[2], b, prods, FALSE)
            /\ regions_contain(traversed_regions(stg, b, prods, FALSE),
                               traversed_regions(stg, b, prods, TRUE), {})
            /\ regions_contain(
                   regions_required(stg[1], stg[2], b, prods, FALSE),
                   regions_required(stg[1], stg[2], b, prods, TRUE),
                   estimated_dims(traversed_regions(stg, b, prods, FALSE),
                                  regions_required(stg[1], stg[2], b, prods, FALSE)))
\* A query for a tile with a producer among prods: the regions computed hold
\* the producer and not the function, and the box allocated of the producer,
\* which reads itself beyond what the tile requires, is the wider.
C21_Witness ==
    /\ pc = "constructed"
    /\ \E stg \in AllStages : \E g \in Funcs \ {stg[1]} :
         LET b == [v \in DimVars(stg[1], stg[2]) |-> Interval(0, 7)]
             rt == traversed_regions(stg, b, Funcs, TRUE)
             rf == traversed_regions(stg, b, Funcs, FALSE)
         IN /\ stg[1] \notin DOMAIN rt /\ stg[1] \in DOMAIN rf
            /\ g \in DOMAIN rt /\ rt[g][1] = Interval(0, 9) /\ ~rf[g][1].bounded

\* ---------------------------------------------------------------------
\* Loop reordering by spatial locality (reorder_dims, lines 2029-2111).

\* The stages reorder_dims is asked about: dimensions in declared order (the
\* reduction variables of an update, then the pure arguments), a reduction
\* variable being pure (Dim::is_pure) or not; and the strides they may have.
ReorderVars == <<"r", "s", "x", "y">>
ReorderStrides == {0, 4, 8}
ReorderDimCases ==
    {SelectSeq([i \in 1..4 |-> [var |-> ReorderVars[i], pure |-> i > 2 \/ p[i]]],
               LAMBDA d : d.var \in S) :
        S \in SUBSET Range(ReorderVars), p \in [1..2 -> BOOLEAN]}

\* Lines 2099-2110: what reorder_dims emits once the loop has ended.  The
\* text of the directive begins with ordering[0]: with no dimension ordered
\* that is a read past the end of an empty vector, after which the call may
\* not return, or may name anything.
reorder_outcomes(dims, strides) ==
    LET order == reorder_loop(dims, DOMAIN strides, strides, <<>>)
    IN IF order = <<>>
       THEN {[returns |-> FALSE, listed |-> <<>>, order |-> order],
             [returns |-> TRUE, listed |-> <<"">>, order |-> order]}
       ELSE {[returns |-> TRUE, listed |-> DimNames(order), order |-> order]}

\* What the claim says of one outcome of reorder_dims.
reordered_by_locality(dims, strides, out) ==
    /\ out.returns
    /\ Len(out.listed) = Len(dims)
    /\ \A d \in DOMAIN dims : \E i \in DOMAIN out.listed : out.listed[i] = dims[d].var
    /\ out.listed = DimNames(out.order)
    /\ \A i, j \in DOMAIN out.order :
          i < j =>
            /\ out.order[i].pure /\ out.order[j].pure
                 => strides[out.order[i].var] <= strides[out.order[j].var]
            /\ ~out.order[i].pure /\ ~out.order[j].pure
                 => DimIndex(dims, out.order[i].var) < DimIndex(dims, out.order[j].var)
            /\ ~out.order[i].pure /\ out.order[j].pure
                 => strides[out.order[i].var] < strides[out.order[j].var]

\* C23: for a stride map whose keys are exactly the non-outermost dimensions
\* of the stage, reorder_dims ends and emits one reorder that lists every
\* such dimension once, innermost first, the pure dimensions in
\* non-decreasing order of stride, the reduction dimensions in their declared
\* order, a reduction dimension before a pure one only if its stride is
\* strictly less.
C23_ReorderBySpatialLocality ==
    pc = "done" =>
    \A dims \in ReorderDimCases :
    \A strides \in [Range(DimNames(dims)) -> ReorderStrides] :
    \A out \in reorder_outcomes(dims, strides) :
        reordered_by_locality(dims, strides, out)

\* C23, for the stages that have a dimension besides '__outermost': the
\* same statement.
C23_ReorderOfDimensions ==
    pc = "done" =>
    \A dims \in ReorderDimCases \ {<<>>} :
    \A strides \in [Range(DimNames(dims)) -> ReorderStrides] :
    \A out \in reorder_outcomes(dims, strides) :
        reordered_by_locality(dims, strides, out)

\* Two reduction dimensions are kept in order against their strides, and one
\* of them is put inside a pure dimension of greater stride; the emitter has
\* reordered the loops of an update definition.
C23_Witness ==
    /\ pc = "done"
    /\ \E i \in DOMAIN sched : sched[i].op = "reorder" /\ sched[i].at > 0
    /\ \E dims \in ReorderDimCases :
       \E strides \in [Range(DimNames(dims)) -> ReorderStrides] :
       \E out \in reorder_outcomes(dims, strides) :
          /\ Len(dims) = 4 /\ ~dims[1].pure /\ ~dims[2].pure
          /\ strides["r"] = 4 /\ strides["s"] = 0 /\ strides["x"] = 0 /\ strides["y"] = 8
          /\ out.listed = <<"x", "r", "s", "y">>

\* ---------------------------------------------------------------------
\* Termination of Partitioner::group (lines 1260-1387).

\* The stages of the functions that are no output of the pipeline.
non_output_stages == {stg \in AllStages : stg[1] \notin Range(outputs)}

\* One iteration of the loop of Partitioner::group: either it is the
\* fixpoint, which leaves the groups alone and ends the pass, or it merges
\* and takes at least one key out of the group map, none of them a stage of
\* an output, and puts none in.
group_iteration ==
    pc \in Levels =>
        \/ /\ ~last'.merged
           /\ groups' = groups
           /\ pc' \notin Levels
           /\ last'.merges = last.merges
        \/ /\ last'.merged
           /\ DOMAIN groups' \subseteq DOMAIN groups
           /\ DOMAIN groups' # DOMAIN groups
           /\ (DOMAIN groups) \ (DOMAIN groups') \subseteq non_output_stages
           /\ last'.merges = last.merges + 1

\* C24: Partitioner::group ends at either level: every iteration short of
\* the fixpoint takes at least one key out of the finite group map and puts
\* none in, and the fixpoint ends the pass; and the merges of the INLINE and the FAST_MEM pass together are no
\* more than the stages of the functions that are no outputs.
C24_GroupingTerminates ==
    /\ [][group_iteration]_vars
    /\ [](last.merges <= Cardinality(non_output_stages))
    /\ [](pc \in Levels \cup {"inlined", "grouped", "done"} =>
             /\ DOMAIN groups \subseteq AllStages
             /\ last.merges <= Cardinality(AllStages) - Cardinality(DOMAIN groups))

\* Both passes have ended, each after a merge.
C24_Witness ==
    /\ pc = "grouped"
    /\ last.merges >= 2
    /\ \E f \in Funcs : num_stages(f) > 1 /\ f \notin Names(DOMAIN groups)

\* ---------------------------------------------------------------------
\* The grouping cache (lines 1132-1140, 1339-1350, 2708).

\* The keys choose_candidate_grouping looks up in an iteration at 'level':
\* a candidate producer with each child of its final stage.
looked_up_keys(cands) ==
    UNION {{GroupingChoice(cands[i][1], c) :
               c \in children[<<cands[i][1], env[cands[i][1]].updates>>]} :
           i \in DOMAIN cands}

\* C25: an entry of the grouping cache that choose_candidate_grouping finds
\* and uses holds the tile sizes and the analysis evaluate_choice gives for
\* that choice on the groups as they are, at the level of the pass.
C25_CacheCoherence ==
    pc \in Levels =>
        \A k \in looked_up_keys(candidates(SortedStages(DOMAIN groups), pc))
                    \cap DOMAIN grouping_cache :
            grouping_cache[k] = evaluate_choice(k, pc)

\* After a merge an entry is left in the cache that the next iteration
\* finds, while another was invalidated; and the same at the second level.
C25_Witness ==
    /\ pc = "FAST_MEM"
    /\ last.merged
    /\ DOMAIN last.pre_cache # DOMAIN grouping_cache
    /\ looked_up_keys(candidates(SortedStages(DOMAIN groups), pc))
          \cap DOMAIN grouping_cache # {}

\* ---------------------------------------------------------------------
\* The members of the groups (lines 959-996, 2294-2351).

\* The groups that hold the stage stg as a member that is not inlined, and
\* the places it has in the member list of the group k.
holders(stg) ==
    {k \in DOMAIN groups :
        stg[1] \notin groups[k].inlined /\ stg \in Range(groups[k].members)}
member_places(k, stg) == {i \in DOMAIN groups[k].members : groups[k].members[i] = stg}

\* C26: after any sequence of merges a stage whose function is not inlined
\* in the group is a member of at most one group, and at most once in the
\* list of its members.
C26_NoDuplicateMember ==
    pc \in {"INLINE", "inlined", "FAST_MEM", "grouped", "done"} =>
        \A stg \in AllStages :
            /\ Cardinality(holders(stg)) <= 1
            /\ \A k \in holders(stg) : Cardinality(member_places(k, stg)) <= 1

\* C27: from the construction of the Partitioner on and after every merge of
\* either pass, every stage of every function of the environment is a member
\* of at least one group, and every stage of an output of the pipeline is a
\* key of the group map.
C27_Coverage ==
    pc \in {"constructed", "INLINE", "inlined", "FAST_MEM", "grouped"} =>
        /\ \A stg \in AllStages : \E k \in DOMAIN groups : stg \in Range(groups[k].members)
        /\ \A i \in DOMAIN outputs : StagesOf(outputs[i]) \subseteq DOMAIN groups

\* The passes have ended after a merge: a function with an update
\* definition has left the group map and is a member of another group.
C27_Witness ==
    /\ pc = "grouped"
    /\ last.merges > 0
    /\ \E f \in Funcs :
         /\ num_stages(f) > 1
         /\ StagesOf(f) \cap DOMAIN groups = {}
         /\ \E k \in DOMAIN groups : StagesOf(f) \subseteq Range(groups[k].members)

tiles_along(g, v, t) == count_tiles([g EXCEPT !.tile_sizes = [u \in {v} |-> t]], 1, 1, 1)
\* The extent of the loop bounds of one tile along v.
tile_extent(g, v, t) ==
    get_extent(get_bounds_from_tile_sizes(g.output, [u \in {v} |-> t])[v])
\* The tile sizes analyze_group is called with for the group g: those of the
\* configurations find_best_tile_config goes through.
analysed_tile_sizes(g) ==
    UNION {{[var |-> v, size |-> cfg[v]] : v \in DOMAIN cfg} :
              cfg \in Range(generate_tile_configs(g.output))}

\* C29: for every dimension with a tile size t and a known extent, the tiles
\* counted along it times the extent of the bounds of one tile is less than
\* the extent plus t; and where the extent is below 2 * t, so that the tile
\* keeps the full extent, the dimension adds a factor of 1 to the number of
\* tiles and to the parallelism.
C29_TileCountAgreesWithBounds ==
    pc \in {"constructed", "INLINE", "inlined", "FAST_MEM", "grouped"} =>
        \A k \in DOMAIN groups : \A vt \in analysed_tile_sizes(groups[k]) :
            LET extent == estimated_extent(k, vt.var)
                n == tiles_along(groups[k], vt.var, vt.size)
            IN extent # unknown =>
                 /\ n.tiles * tile_extent(groups[k], vt.var, vt.size) < extent + vt.size
                 /\ extent < 2 * vt.size => n.tiles = 1 /\ n.par = 1

\* ---------------------------------------------------------------------
\* The tiling of the emitter (lines 2186-2213) against that of the cost model
\* (get_bounds_from_tile_sizes, lines 1409-1429).

\* What lines 2186-2213 make of the dimensions of the output of the group g
\* had it the tile sizes cfg: the inner and the outer dimensions.
emitted_tiling(g, cfg) ==
    LET start == StageState(g.output, bounds_to_estimates(get_bounds(g.output)))
    IN tile_dims(g.output, cfg, DimNames(start.dims), start, <<>>, <<>>)
\* Whether the emitter treats v as tiled: split by its tile size, or moved to
\* the outer dimensions as it is when the size is 1.
emitter_tiles(g, cfg, v) ==
    \/ cfg[v] > 1 /\ (v \o "_o") \in Range(emitted_tiling(g, cfg).outer_dims)
    \/ cfg[v] = 1 /\ v \in Range(emitted_tiling(g, cfg).outer_dims)
\* Whether the cost model treats v as tiled: the bounds of a tile along v are
\* [0, t - 1], the estimated extent being at least 2 * t.
cost_model_tiles(g, cfg, v) ==
    /\ get_bounds_from_tile_sizes(g.output, cfg)[v] = Interval(0, cfg[v] - 1)
    /\ estimated_extent(g.output, v) # unknown
    /\ estimated_extent(g.output, v) >= 2 * cfg[v]

\* C30: for every dimension v of the output of a group with a tile size t,
\* the emitter treats v as tiled exactly when the cost model did, that is,
\* exactly when the estimated extent of v is at least 2 * t.
C30_EmittedTilingAgrees ==
    pc = "grouped" =>
        \A k \in DOMAIN groups : \A v \in DOMAIN groups[k].tile_sizes :
            emitter_tiles(groups[k], groups[k].tile_sizes, v)
                <=> cost_model_tiles(groups[k], groups[k].tile_sizes, v)

============================================================================
